---- MODULE Spec2Model ----
(***************************************************************************)
(* FileShare: the file service's record store, download accounting and     *)
(* policy update (src/file_service/app/routes/files.py, utils.py,          *)
(* models.py, schemas.py, database.py), its accounts (routes/auth.py) and   *)
(* the login, registration, upload and download pages of the web service   *)
(* (src/web_service/app/routes/pages.py, client.py).                       *)
(*                                                                         *)
(* Every request handler runs with its own SQLAlchemy session              *)
(* (database.py get_db): the row it SELECTs is a private copy, the checks  *)
(* are made on that copy, and commit() issues UPDATE ... WHERE id = <id>   *)
(* for the columns the handler gave a new value, with the values computed  *)
(* from the copy.  The handlers take no lock and use no conditional        *)
(* UPDATE.  The database and the upload directory are shared by all        *)
(* workers of the service, so the steps of requests served by different    *)
(* workers interleave at the points where a handler touches the database,  *)
(* the disk or the clock; each action below is one such step.              *)
(*                                                                         *)
(* db    the rows of table files, by id                                    *)
(* disk  the upload directory: bytes by stored_name                        *)
(* now   datetime.utcnow(), in hours                                       *)
(* rq    per worker, the request in hand or the answer last given          *)
(* hist  per record, how many downloads were decided Allowed and           *)
(*       LimitReached, whether an update or delete was committed, and the  *)
(*       token, stored_name, bytes and owner it was uploaded with          *)
(* users    the rows of table users (routes/auth.py)                       *)
(* session  request.session of the browser talking to the web service      *)
(* page     the page request the web service is handling                   *)
(*                                                                         *)
(* Optional values: None is <<>>, a present value x is <<x>>.              *)
(*                                                                         *)
(* Spec            one worker, all operations, requests one after another  *)
(* SpecAccounting  several workers, uploads and downloads interleaved      *)
(* SpecExpiry      several workers, expiry set at upload and by update,    *)
(*                 downloads and Info interleaved with the clock           *)
(* SpecPatch       one worker, uploads and credential updates              *)
(* SpecFrame       several workers, uploads, downloads, Info, List by      *)
(*                 owner and updates of every policy field                 *)
(* SpecTransfer    one worker, uploads by several owners and transfers     *)
(* SpecStore       one worker, uploads under freely drawn names, downloads,*)
(*                 Info, updates and deletes                               *)
(* SpecWeb         one browser session on the web service: upload, login,  *)
(*                 registration, logout                                    *)
(* SpecCrash       one worker, uploads, downloads, Info and deletes; a     *)
(*                 handler may be cut short between two steps              *)
(* SpecUploadCrash several workers, uploads, downloads and Info; a handler *)
(*                 may be cut short between two steps                      *)
(* SpecLimit       one worker, uploads with days, hours and limit,         *)
(*                 downloads and limit updates, with the clock             *)
(* SpecContend     several workers, downloads interleaved with an update   *)
(*                 and a transfer of the same record                       *)
(* SpecProxy       the web service's download proxy, next to direct        *)
(*                 uploads and deletes                                     *)
(* SpecWebUpload   one worker, uploads through the web page and directly   *)
(* SpecSettings    one browser session: upload, register, login, logout    *)
(*                 and the settings page, next to direct uploads           *)
(* SpecPermanent   several workers, expired records under downloads, Info, *)
(*                 transfers and expiry updates with or without identity   *)
(* SpecHeader      the proxy's Content-Disposition header of every name    *)
(***************************************************************************)
EXTENDS Integers, Sequences, FiniteSets, TLC

VARIABLES db, disk, now, nextId, rq, started, hist, users, session, page

vars == <<db, disk, now, nextId, rq, started, hist, users, session, page>>

----------------------------------------------------------------------------
(* Bounds *)

NumWorkers == 2
MaxFiles == 2
MaxTime == 1
MaxRequests == 4
MaxLimit == 1
MaxNameLen == 2

(* Program constants *)

HoursPerDay == 24
DefaultDownloadsCount == 0

----------------------------------------------------------------------------
(* Values *)

None == <<>>
Some(x) == <<x>>
Val(o) == o[1]

Workers == 1..NumWorkers
Ids == 1..MaxFiles
Tokens == {"t1"}
StoredNames == {"k1"}
Filenames == {"f.txt"}
Contents == {"b1"}
Users == {"u1", "u2"}

OptSet(S) == {None} \cup {Some(x) : x \in S}

(* Python truthiness of an Optional[str] and of an Optional[int] *)
TruthyStr(o) == o # None /\ Val(o) # ""
TruthyInt(o) == o # None /\ Val(o) # 0

----------------------------------------------------------------------------
(* utils.py *)

(* as parse_expires_at, but hours, when given, replace the days *)
parse_expires_at_hours_first(days, hours, t) ==
    IF days = None /\ hours = None
    THEN None
    ELSE IF TruthyInt(hours) THEN Some(t + Val(hours))
    ELSE Some(t + (IF TruthyInt(days) THEN Val(days) * HoursPerDay ELSE 0))

parse_expires_at(days, hours, t) ==
    IF days = None /\ hours = None
    THEN None
    ELSE Some(t + (IF TruthyInt(days) THEN Val(days) * HoursPerDay ELSE 0)
                + (IF TruthyInt(hours) THEN Val(hours) ELSE 0))

is_file_expired_inclusive(expires_at, t) ==
    IF expires_at = None THEN FALSE ELSE t >= Val(expires_at)

is_file_expired(expires_at, t) ==
    IF expires_at = None THEN FALSE ELSE t > Val(expires_at)

(* as is_download_limit_reached, but the limit itself is still allowed *)
is_download_limit_reached_exclusive(downloads_count, max_downloads) ==
    IF max_downloads = None THEN FALSE ELSE downloads_count > Val(max_downloads)

is_download_limit_reached(downloads_count, max_downloads) ==
    IF max_downloads = None THEN FALSE ELSE downloads_count >= Val(max_downloads)

----------------------------------------------------------------------------
(* models.py: one row of table files *)

(* routes/files.py 51-59 FileModel(...); downloads_count and created_at    *)
(* take the column defaults (models.py 17-18) *)
NewFile(id, form, stored_name, token, expires_at, t) ==
    [id |-> id, filename |-> form.filename, stored_name |-> stored_name,
     token |-> token, password |-> form.password, expires_at |-> expires_at,
     max_downloads |-> form.max_downloads,
     downloads_count |-> DefaultDownloadsCount,
     created_at |-> t, user_id |-> form.user_id]

(* db.query(FileModel).filter(FileModel.token == token).first() *)
RowsByToken(token) == {i \in DOMAIN db : db[i].token = token}
FirstByToken(token) ==
    IF RowsByToken(token) = {} THEN None
    ELSE Some(db[CHOOSE i \in RowsByToken(token) :
                     \A j \in RowsByToken(token) : i <= j])

(* db.query(FileModel).filter(FileModel.user_id == user_id).all() *)
RowsByUser(user_id) == {i \in DOMAIN db : db[i].user_id = Some(user_id)}

(* FileInfo(...) as built by get_file_info, get_user_files and update_file *)
FileInfo(f, t) ==
    [id |-> f.id, filename |-> f.filename, token |-> f.token,
     expires_at |-> f.expires_at, max_downloads |-> f.max_downloads,
     downloads_count |-> f.downloads_count, created_at |-> f.created_at,
     is_expired |-> is_file_expired(f.expires_at, t),
     is_download_limit_reached |->
         is_download_limit_reached(f.downloads_count, f.max_downloads),
     has_password |-> f.password # None,
     user_id |-> f.user_id]

----------------------------------------------------------------------------
(* Requests.  rq[w] is the request worker w is handling or has just        *)
(* answered: pc is the handler's position, "done" once answered, and       *)
(* status the HTTP status of the answer (0 while in flight).               *)

Idle == [kind |-> "none", pc |-> "done", status |-> 0, detail |-> "none"]

(* what stays of a request once it is answered *)
Answer(kind, status, detail) ==
    [kind |-> kind, pc |-> "done", status |-> status, detail |-> detail]

CanStart(w) == rq[w].pc = "done" /\ started < MaxRequests

NoHist ==
    [allowed |-> 0, limited |-> 0, touched |-> FALSE, token |-> None,
     stored_name |-> None, content |-> None, user_id |-> None]

EmptyFn == [x \in {} |-> x]

(* web_service: request.session of the browser (the signed session cookie, *)
(* main.py 9), empty until a page stores something in it                   *)
NoSession == [user_id |-> None, auth_token |-> None, username |-> None]

(* the page request the web service is handling, or its last response *)
IdlePage == [kind |-> "none", pc |-> "done", status |-> 0]

Init ==
    /\ db = EmptyFn
    /\ disk = EmptyFn
    /\ now = 0
    /\ nextId = 1
    /\ rq = [w \in Workers |-> Idle]
    /\ started = 0
    /\ hist = [i \in Ids |-> NoHist]
    /\ users = {}
    /\ session = NoSession
    /\ page = IdlePage

(* datetime.utcnow() moves on between any two steps *)
Tick ==
    /\ now < MaxTime
    /\ now' = now + 1
    /\ UNCHANGED <<db, disk, nextId, rq, started, hist, users, session, page>>

----------------------------------------------------------------------------
(* POST /api/files/upload *)

(* lines 25-32: the form fields of an upload *)
UploadForm(filename, content, password, days, hours, max_downloads, user_id) ==
    [filename |-> filename, content |-> content, password |-> password,
     expires_days |-> days, expires_hours |-> hours,
     max_downloads |-> max_downloads, user_id |-> user_id]

(* as UploadWriteStep, but the bytes are not written before the commit *)
UploadWriteStepLate(w, form, stored_name, token) ==
    /\ CanStart(w)
    /\ nextId + Cardinality({v \in Workers : rq[v].pc = "up_commit"}) <= MaxFiles
    /\ rq' = [rq EXCEPT ![w] =
                 [kind |-> "upload", pc |-> "up_commit", status |-> 0,
                  detail |-> "none", form |-> form,
                  stored_name |-> stored_name, token |-> token]]
    /\ started' = started + 1
    /\ UNCHANGED <<db, disk, now, nextId, hist>>

(* lines 39-45: generate the names, write the bytes under stored_name.     *)
(* secrets.token_urlsafe is a random draw: any name may come out.          *)
UploadWriteStep(w, form, stored_name, token) ==
    /\ CanStart(w)
    /\ nextId + Cardinality({v \in Workers : rq[v].pc = "up_commit"}) <= MaxFiles
    /\ disk' = [k \in DOMAIN disk \cup {stored_name} |->
                    IF k = stored_name THEN form.content ELSE disk[k]]
    /\ rq' = [rq EXCEPT ![w] =
                 [kind |-> "upload", pc |-> "up_commit", status |-> 0,
                  detail |-> "none", form |-> form,
                  stored_name |-> stored_name, token |-> token]]
    /\ started' = started + 1
    /\ UNCHANGED <<db, now, nextId, hist>>

(* the upload request sent to the file service directly *)
UploadWrite(w, form, stored_name, token) ==
    /\ UploadWriteStep(w, form, stored_name, token)
    /\ UNCHANGED <<users, session, page>>

(* only the token is kept unique *)
IsDuplicateToken(token, stored_name) ==
    \E i \in DOMAIN db : db[i].token = token

(* models.py 12-13: token and stored_name are UNIQUE columns *)
IsDuplicate(token, stored_name) ==
    \E i \in DOMAIN db : db[i].token = token \/ db[i].stored_name = stored_name

(* lines 48-62: parse the expiry, INSERT, commit; a duplicate of a UNIQUE   *)
(* column fails the commit (IntegrityError, not caught).                   *)
UploadCommit(w) ==
    /\ rq[w].pc = "up_commit"
    /\ LET r == rq[w]
           dup == IsDuplicate(r.token, r.stored_name)
           row == NewFile(nextId, r.form, r.stored_name, r.token,
                          parse_expires_at(r.form.expires_days,
                                           r.form.expires_hours, now),
                          now)
       IN IF dup
          THEN /\ rq' = [rq EXCEPT ![w] =
                            Answer("upload", 500, "IntegrityError") @@
                            [token |-> r.token, stored_name |-> r.stored_name]]
               /\ UNCHANGED <<db, nextId, hist>>
          ELSE /\ db' = [i \in DOMAIN db \cup {nextId} |->
                            IF i = nextId THEN row ELSE db[i]]
               /\ nextId' = nextId + 1
               /\ rq' = [rq EXCEPT ![w] =
                            Answer("upload", 200, "uploaded") @@
                            [token |-> r.token]]
               /\ hist' = [hist EXCEPT ![nextId] =
                              [@ EXCEPT !.token = Some(r.token),
                                        !.stored_name = Some(r.stored_name),
                                        !.content = Some(r.form.content),
                                        !.user_id = r.form.user_id]]
    /\ UNCHANGED <<disk, now, started, users, session, page>>

----------------------------------------------------------------------------
(* GET /api/files/download/{token} *)

(* line 112: SELECT the row; lines 114-115: 404 when there is none *)
DownloadReadStep(w, token, password) ==
    /\ CanStart(w)
    /\ LET f == FirstByToken(token)
       IN rq' = [rq EXCEPT ![w] =
                   IF f = None
                   THEN Answer("download", 404, "File not found") @@
                        [token |-> token]
                   ELSE [kind |-> "download", pc |-> "dl_check",
                         status |-> 0, detail |-> "none",
                         password |-> password, snap |-> Val(f)]]
    /\ started' = started + 1
    /\ UNCHANGED <<db, disk, now, nextId, hist>>

(* the download request sent to the file service directly *)
DownloadRead(w, token, password) ==
    /\ DownloadReadStep(w, token, password)
    /\ UNCHANGED <<users, session, page>>

(* lines 117-127, on the row read at line 112: the outcome of the checks,  *)
(* "ok" when all pass *)
DownloadCheck(f, password, t) ==
    IF TruthyStr(f.password) /\ f.password # password
    THEN "Invalid password"
    ELSE IF is_file_expired(f.expires_at, t)
    THEN "File has expired"
    ELSE IF is_download_limit_reached(f.downloads_count, f.max_downloads)
    THEN "Download limit reached"
    ELSE "ok"

StatusOf(detail) ==
    CASE detail = "Invalid password" -> 403
      [] detail = "File has expired" -> 410
      [] detail = "Download limit reached" -> 410
      [] detail = "File not found" -> 404
      [] detail = "File not found on disk" -> 404
      [] OTHER -> 0

DownloadDecide(w) ==
    /\ rq[w].pc = "dl_check"
    /\ LET f == rq[w].snap
           d == DownloadCheck(f, rq[w].password, now)
       IN /\ rq' = [rq EXCEPT ![w] =
                       IF d = "ok"
                       THEN [kind |-> "download", pc |-> "dl_commit",
                             status |-> 0, detail |-> "none", snap |-> f]
                       ELSE Answer("download", StatusOf(d), d)]
          /\ hist' = [hist EXCEPT
                        ![f.id].allowed = @ + (IF d = "ok" THEN 1 ELSE 0),
                        ![f.id].limited =
                            @ + (IF d = "Download limit reached" THEN 1 ELSE 0)]
    /\ UNCHANGED <<db, disk, now, nextId, started, users, session, page>>

(* as DownloadCommit, but the commit writes the whole row as it was read *)
DownloadCommitWholeRow(w) ==
    /\ rq[w].pc = "dl_commit"
    /\ LET f == rq[w].snap
       IN IF f.id \in DOMAIN db
          THEN /\ db' = [db EXCEPT ![f.id] =
                            [f EXCEPT !.downloads_count = f.downloads_count + 1]]
               /\ rq' = [rq EXCEPT ![w] =
                            [kind |-> "download", pc |-> "dl_serve",
                             status |-> 0, detail |-> "none", id |-> f.id,
                             read |-> f.downloads_count]]
          ELSE /\ rq' = [rq EXCEPT ![w] =
                            Answer("download", 500, "StaleDataError")]
               /\ UNCHANGED db
    /\ UNCHANGED <<disk, now, nextId, started, hist, users, session, page>>

(* lines 130-131: downloads_count += 1 on the session's row, commit:       *)
(* UPDATE files SET downloads_count = <snapshot + 1> WHERE id = <id>.      *)
(* A row deleted meanwhile makes the flush fail (StaleDataError).          *)
DownloadCommit(w) ==
    /\ rq[w].pc = "dl_commit"
    /\ LET f == rq[w].snap
       IN IF f.id \in DOMAIN db
          THEN /\ db' = [db EXCEPT ![f.id].downloads_count =
                                              f.downloads_count + 1]
               /\ rq' = [rq EXCEPT ![w] =
                            [kind |-> "download", pc |-> "dl_serve",
                             status |-> 0, detail |-> "none", id |-> f.id,
                             read |-> f.downloads_count]]
          ELSE /\ rq' = [rq EXCEPT ![w] =
                            Answer("download", 500, "StaleDataError")]
               /\ UNCHANGED db
    /\ UNCHANGED <<disk, now, nextId, started, hist, users, session, page>>

(* as DownloadServe, but missing bytes are answered as an unknown token is *)
DownloadServePlain(w) ==
    /\ rq[w].pc = "dl_serve"
    /\ LET id == rq[w].id
       IN rq' = [rq EXCEPT ![w] =
                   IF id \notin DOMAIN db
                   THEN Answer("download", 500, "ObjectDeletedError")
                   ELSE IF db[id].stored_name \notin DOMAIN disk
                   THEN Answer("download", 404, "File not found")
                   ELSE Answer("download", 200, "file") @@
                        [body |-> disk[db[id].stored_name]]]
    /\ UNCHANGED <<db, disk, now, nextId, started, hist, users, session, page>>

(* lines 134-144: the row is reloaded after the commit (stored_name),      *)
(* os.path.exists, then the file is sent *)
DownloadServe(w) ==
    /\ rq[w].pc = "dl_serve"
    /\ LET id == rq[w].id
       IN rq' = [rq EXCEPT ![w] =
                   IF id \notin DOMAIN db
                   THEN Answer("download", 500, "ObjectDeletedError")
                   ELSE IF db[id].stored_name \notin DOMAIN disk
                   THEN Answer("download", 404, "File not found on disk")
                   ELSE Answer("download", 200, "file") @@
                        [body |-> disk[db[id].stored_name]]]
    /\ UNCHANGED <<db, disk, now, nextId, started, hist, users, session, page>>

----------------------------------------------------------------------------
(* GET /api/files/info/{token}, lines 82-102: one SELECT, no write *)
GetFileInfoStep(w, token) ==
    /\ CanStart(w)
    /\ LET f == FirstByToken(token)
       IN rq' = [rq EXCEPT ![w] =
                   IF f = None
                   THEN Answer("info", 404, "File not found") @@
                        [token |-> token]
                   ELSE Answer("info", 200, "info") @@
                        [info |-> FileInfo(Val(f), now)]]
    /\ started' = started + 1
    /\ UNCHANGED <<db, disk, now, nextId, hist>>

(* as GetFileInfo, but the look is counted as a download *)
GetFileInfoCounting(w, token) ==
    /\ CanStart(w)
    /\ LET f == FirstByToken(token)
       IN /\ rq' = [rq EXCEPT ![w] =
                       IF f = None
                       THEN Answer("info", 404, "File not found")
                       ELSE Answer("info", 200, "info") @@
                            [info |-> FileInfo(Val(f), now)]]
          /\ db' = IF f = None THEN db
                   ELSE [db EXCEPT ![Val(f).id].downloads_count = @ + 1]
    /\ started' = started + 1
    /\ UNCHANGED <<disk, now, nextId, hist, users, session, page>>

(* the Info request sent to the file service directly *)
GetFileInfo(w, token) ==
    /\ GetFileInfoStep(w, token)
    /\ UNCHANGED <<users, session, page>>

(* GET /api/files/user/{user_id}, lines 150-171: one SELECT of the rows of  *)
(* user_id, the FileInfo of each, no write *)
GetUserFiles(w, user_id) ==
    /\ CanStart(w)
    /\ rq' = [rq EXCEPT ![w] =
                 Answer("list", 200, "list") @@
                 [user_id |-> user_id,
                  files |-> {FileInfo(db[i], now) : i \in RowsByUser(user_id)}]]
    /\ started' = started + 1
    /\ UNCHANGED <<db, disk, now, nextId, hist, users, session, page>>

----------------------------------------------------------------------------
(* PATCH /api/files/{token}?user_id= *)

(* schemas.py FileUpdate *)
FileUpdate(password, days, hours, max_downloads, remove_password) ==
    [password |-> password, expires_days |-> days, expires_hours |-> hours,
     max_downloads |-> max_downloads, remove_password |-> remove_password]

(* lines 187-189: the owner check *)
UpdateForbidden(f, user_id) == TruthyStr(user_id) /\ f.user_id # user_id

(* lines 182-189: SELECT the row; 404 when there is none, 403 when the     *)
(* owner check fails *)
UpdateReadStep(w, token, file_update, user_id) ==
    /\ CanStart(w)
    /\ LET f == FirstByToken(token)
           d == IF f = None THEN "File not found"
                ELSE IF UpdateForbidden(Val(f), user_id) THEN "Forbidden"
                ELSE "ok"
       IN rq' = [rq EXCEPT ![w] =
                   IF d = "ok"
                   THEN [kind |-> "update", pc |-> "upd_commit",
                         status |-> 0, detail |-> "none",
                         file_update |-> file_update, user_id |-> user_id,
                         snap |-> Val(f)]
                   ELSE Answer("update", IF f = None THEN 404 ELSE 403, d) @@
                        [token |-> token, user_id |-> user_id]]
    /\ started' = started + 1
    /\ UNCHANGED <<db, disk, now, nextId, hist>>

(* the update request sent to the file service directly *)
UpdateRead(w, token, file_update, user_id) ==
    /\ UpdateReadStep(w, token, file_update, user_id)
    /\ UNCHANGED <<users, session, page>>

UpdatedPasswordSetWins(f, u) ==
    IF u.password # None THEN u.password
    ELSE IF u.remove_password THEN None
    ELSE f.password

(* lines 191-195 *)
UpdatedPassword(f, u) ==
    IF u.remove_password THEN None
    ELSE IF u.password # None THEN u.password
    ELSE f.password

(* lines 197-200 *)
UpdatedExpiresAt(f, u, t) ==
    IF u.expires_days # None \/ u.expires_hours # None
    THEN parse_expires_at(u.expires_days, u.expires_hours, t)
    ELSE f.expires_at

(* the limit taken from the patch as it is, absent or not *)
UpdatedMaxDownloadsReplace(f, u) == u.max_downloads

(* lines 202-204 *)
UpdatedMaxDownloads(f, u) ==
    IF u.max_downloads # None THEN u.max_downloads ELSE f.max_downloads

(* lines 191-207: assign the fields on the session's row, commit: the      *)
(* UPDATE carries the columns whose value differs from the one loaded.     *)
(* Then refresh and answer with the FileInfo of the stored row.            *)
UpdateCommit(w) ==
    /\ rq[w].pc = "upd_commit"
    /\ LET f == rq[w].snap
           u == rq[w].file_update
           pw == UpdatedPassword(f, u)
           ex == UpdatedExpiresAt(f, u, now)
           mx == UpdatedMaxDownloads(f, u)
       IN IF f.id \in DOMAIN db
          THEN /\ db' = [db EXCEPT
                          ![f.id].password =
                              IF pw # f.password THEN pw ELSE @,
                          ![f.id].expires_at =
                              IF ex # f.expires_at THEN ex ELSE @,
                          ![f.id].max_downloads =
                              IF mx # f.max_downloads THEN mx ELSE @]
               /\ rq' = [rq EXCEPT ![w] =
                            Answer("update", 200, "info") @@
                            [info |-> FileInfo(db'[f.id], now),
                             file_update |-> u]]
               /\ hist' = [hist EXCEPT ![f.id].touched = TRUE]
          ELSE /\ rq' = [rq EXCEPT ![w] =
                            Answer("update", 500, "StaleDataError")]
               /\ UNCHANGED <<db, hist>>
    /\ UNCHANGED <<disk, now, nextId, started, users, session, page>>

----------------------------------------------------------------------------
(* POST /api/files/transfer/{old_user_id}/{new_user_id} *)

(* as TransferRead, but every owned row is selected *)
TransferReadAll(w, old_user_id, new_user_id) ==
    /\ CanStart(w)
    /\ rq' = [rq EXCEPT ![w] =
                 [kind |-> "transfer", pc |-> "tr_commit", status |-> 0,
                  detail |-> "none", old_user_id |-> old_user_id,
                  new_user_id |-> new_user_id,
                  files |-> {i \in DOMAIN db : db[i].user_id # None}]]
    /\ started' = started + 1
    /\ UNCHANGED <<db, disk, now, nextId, hist, users, session, page>>

(* line 234: SELECT the rows of old_user_id *)
TransferReadStep(w, old_user_id, new_user_id) ==
    /\ CanStart(w)
    /\ rq' = [rq EXCEPT ![w] =
                 [kind |-> "transfer", pc |-> "tr_commit", status |-> 0,
                  detail |-> "none", old_user_id |-> old_user_id,
                  new_user_id |-> new_user_id,
                  files |-> RowsByUser(old_user_id)]]
    /\ started' = started + 1
    /\ UNCHANGED <<db, disk, now, nextId, hist>>

(* the transfer request sent to the file service directly *)
TransferRead(w, old_user_id, new_user_id) ==
    /\ TransferReadStep(w, old_user_id, new_user_id)
    /\ UNCHANGED <<users, session, page>>

(* as TransferCommit, but the rows are counted and not rewritten *)
TransferCommitCountOnly(w) ==
    /\ rq[w].pc = "tr_commit"
    /\ rq' = [rq EXCEPT ![w] =
                 Answer("transfer", 200, "transferred") @@
                 [count |-> Cardinality(rq[w].files),
                  old_user_id |-> rq[w].old_user_id,
                  new_user_id |-> rq[w].new_user_id]]
    /\ UNCHANGED <<db, disk, now, nextId, started, hist, users, session, page>>

(* lines 236-243: user_id = new_user_id on each row read, commit *)
TransferCommit(w) ==
    /\ rq[w].pc = "tr_commit"
    /\ LET ids == rq[w].files
           changed == IF rq[w].new_user_id = rq[w].old_user_id THEN {} ELSE ids
       IN IF changed \subseteq DOMAIN db
          THEN /\ db' = [i \in DOMAIN db |->
                            IF i \in changed
                            THEN [db[i] EXCEPT
                                    !.user_id = Some(rq[w].new_user_id)]
                            ELSE db[i]]
               /\ rq' = [rq EXCEPT ![w] =
                            Answer("transfer", 200, "transferred") @@
                            [count |-> Cardinality(ids),
                             old_user_id |-> rq[w].old_user_id,
                             new_user_id |-> rq[w].new_user_id]]
          ELSE /\ rq' = [rq EXCEPT ![w] =
                            Answer("transfer", 500, "StaleDataError")]
               /\ UNCHANGED db
    /\ UNCHANGED <<disk, now, nextId, started, hist, users, session, page>>

----------------------------------------------------------------------------
(* DELETE /api/files/{token} *)

(* lines 249-252 *)
DeleteRead(w, token) ==
    /\ CanStart(w)
    /\ LET f == FirstByToken(token)
       IN rq' = [rq EXCEPT ![w] =
                   IF f = None
                   THEN Answer("delete", 404, "File not found") @@
                        [token |-> token]
                   ELSE [kind |-> "delete", pc |-> "del_remove",
                         status |-> 0, detail |-> "none", snap |-> Val(f)]]
    /\ started' = started + 1
    /\ UNCHANGED <<db, disk, now, nextId, hist, users, session, page>>

(* as DeleteRemove, but the bytes are left for later *)
DeleteRemoveLater(w) ==
    /\ rq[w].pc = "del_remove"
    /\ rq' = [rq EXCEPT ![w].pc = "del_commit"]
    /\ UNCHANGED <<db, disk, now, nextId, started, hist, users, session, page>>

(* lines 255-257: remove the bytes when they are there *)
DeleteRemove(w) ==
    /\ rq[w].pc = "del_remove"
    /\ LET k == rq[w].snap.stored_name
       IN disk' = [x \in DOMAIN disk \ {k} |-> disk[x]]
    /\ rq' = [rq EXCEPT ![w].pc = "del_commit"]
    /\ UNCHANGED <<db, now, nextId, started, hist, users, session, page>>

(* lines 260-263: DELETE the row, commit *)
DeleteCommit(w) ==
    /\ rq[w].pc = "del_commit"
    /\ LET f == rq[w].snap
       IN IF f.id \in DOMAIN db
          THEN /\ db' = [i \in DOMAIN db \ {f.id} |-> db[i]]
               /\ rq' = [rq EXCEPT ![w] =
                            Answer("delete", 200, "File deleted successfully")]
               /\ hist' = [hist EXCEPT ![f.id].touched = TRUE]
          ELSE /\ rq' = [rq EXCEPT ![w] =
                            Answer("delete", 500, "StaleDataError")]
               /\ UNCHANGED <<db, hist>>
    /\ UNCHANGED <<disk, now, nextId, started, users, session, page>>

----------------------------------------------------------------------------
(* database.py get_db: a handler that is cut short between two of its      *)
(* statements (the process is killed, or a statement raises) closes its    *)
(* session without a commit: what it wrote to storage or committed before  *)
(* stays, the rest is lost, and the caller gets no answer of the handler.  *)
Crash(w) ==
    /\ rq[w].pc # "done"
    /\ rq' = [rq EXCEPT ![w] = Answer(rq[w].kind, 0, "crashed")]
    /\ UNCHANGED <<db, disk, now, nextId, started, hist, users, session, page>>

----------------------------------------------------------------------------
(* routes/auth.py: accounts *)

(* get_password_hash / verify_password (bcrypt) *)
get_password_hash(password) == <<"bcrypt", password>>
verify_password(plain_password, hashed_password) ==
    hashed_password = get_password_hash(plain_password)

(* create_access_token: a JWT whose subject is the user id *)
create_access_token(user_id) == <<"jwt", user_id>>

(* str(db_user.id) *)
IdStr == <<"1", "2", "3", "4">>
str(n) == IdStr[n]

(* schemas_auth.py Token *)
Token(user_id) ==
    [access_token |-> create_access_token(user_id), user_id |-> user_id]

(* POST /api/auth/register, lines 51-57: 400 when the username or the      *)
(* email is taken *)
RegisterRefused(username, email) ==
    \E u \in users : u.username = username \/ u.email = email

(* lines 60-70: the new row of table users *)
NewUser(username, email, password) ==
    [id |-> Cardinality(users) + 1, username |-> username, email |-> email,
     hashed_password |-> get_password_hash(password)]

(* POST /api/auth/login, lines 86-101: the Token of the user, None for the *)
(* 401 answer *)
AuthLogin(username, password) ==
    LET found == {u \in users :
                     /\ u.username = username
                     /\ verify_password(password, u.hashed_password)}
    IN IF found = {} THEN None
       ELSE Some(Token(str((CHOOSE u \in found : TRUE).id)))

----------------------------------------------------------------------------
(* web_service/app/routes/pages.py: the pages of one browser session *)

(* get_user_id, lines 17-26: the session's user_id, a new random one       *)
(* stored in the session when it has none *)
get_user_id(s, temp_user_id) ==
    IF s.user_id # None
    THEN [user_id |-> Val(s.user_id), session |-> s]
    ELSE [user_id |-> temp_user_id,
          session |-> [s EXCEPT !.user_id = Some(temp_user_id)]]

(* client.py upload_file, lines 25-35: a form field is sent only when its  *)
(* value is truthy *)
ClientUploadForm(form, user_id) ==
    [filename |-> form.filename, content |-> form.content,
     password |-> IF TruthyStr(form.password) THEN form.password ELSE None,
     expires_days |->
         IF TruthyInt(form.expires_days) THEN form.expires_days ELSE None,
     expires_hours |->
         IF TruthyInt(form.expires_hours) THEN form.expires_hours ELSE None,
     max_downloads |->
         IF TruthyInt(form.max_downloads) THEN form.max_downloads ELSE None,
     user_id |-> IF user_id # "" THEN Some(user_id) ELSE None]

(* POST /upload, lines 83-97: the session's identity, then the upload      *)
(* request to the file service *)
PageUpload(w, form, stored_name, token, temp_user_id) ==
    /\ page.pc = "done"
    /\ LET g == get_user_id(session, temp_user_id)
       IN /\ session' = g.session
          /\ UploadWriteStep(w, ClientUploadForm(form, g.user_id),
                             stored_name, token)
    /\ page' = [kind |-> "upload", pc |-> "upload_wait", status |-> 0,
                worker |-> w, form |-> form]
    /\ UNCHANGED users

(* lines 99-121: the file service has answered; success page or error page *)
PageUploadReturns ==
    /\ page.pc = "upload_wait"
    /\ rq[page.worker].pc = "done"
    /\ page' = [kind |-> "upload", pc |-> "done",
                status |-> IF rq[page.worker].status = 200 THEN 200 ELSE 500]
    /\ UNCHANGED <<db, disk, now, nextId, rq, started, hist, users, session>>

(* lines 298-301 *)
LoggedIn(result, username) ==
    [user_id |-> Some(result.user_id),
     auth_token |-> Some(result.access_token), username |-> Some(username)]

(* as SessionAfterLogin, but a failed transfer leaves the session as it was *)
SessionAfterLoginStrict(s, result, username, transferred) ==
    IF transferred THEN LoggedIn(result, username) ELSE s

(* lines 292-301: the session after the transfer call, whether the call    *)
(* succeeded or raised (except Exception: pass) *)
SessionAfterLogin(s, result, username, transferred) ==
    LoggedIn(result, username)

(* POST /login, lines 285-290 and 305-374: the session's identity, then    *)
(* the auth call; a refused login renders the login page again *)
PageLogin(username, password, temp_user_id) ==
    /\ page.pc = "done"
    /\ LET g == get_user_id(session, temp_user_id)
           result == AuthLogin(username, password)
       IN /\ session' = g.session
          /\ page' = IF result = None
                     THEN [kind |-> "login", pc |-> "done", status |-> 200]
                     ELSE [kind |-> "login", pc |-> "login_transfer",
                           status |-> 0, old_user_id |-> g.user_id,
                           result |-> Val(result), username |-> username]
    /\ UNCHANGED <<db, disk, now, nextId, rq, started, hist, users>>

(* lines 293-294: the transfer request reaches the file service *)
PageLoginTransfer(w) ==
    /\ page.pc = "login_transfer"
    /\ TransferReadStep(w, page.old_user_id, page.result.user_id)
    /\ page' = [page EXCEPT !.pc = "login_wait"] @@ [worker |-> w]
    /\ UNCHANGED <<users, session>>

(* lines 294-303: the transfer request does not reach the file service;    *)
(* the exception is dropped and the login goes on *)
PageLoginTransferFails ==
    /\ page.pc = "login_transfer"
    /\ session' = SessionAfterLogin(session, page.result, page.username, FALSE)
    /\ page' = [kind |-> "login", pc |-> "done", status |-> 303,
                transferred |-> FALSE, old_user_id |-> page.old_user_id]
    /\ UNCHANGED <<db, disk, now, nextId, rq, started, hist, users>>

(* lines 294-303: the file service has answered the transfer               *)
(* (raise_for_status, client.py 101); the login goes on either way *)
PageLoginReturns ==
    /\ page.pc = "login_wait"
    /\ rq[page.worker].pc = "done"
    /\ LET ok == rq[page.worker].status = 200
       IN /\ session' = SessionAfterLogin(session, page.result,
                                          page.username, ok)
          /\ page' = [kind |-> "login", pc |-> "done", status |-> 303,
                      transferred |-> ok, old_user_id |-> page.old_user_id]
    /\ UNCHANGED <<db, disk, now, nextId, rq, started, hist, users>>

(* POST /register, lines 385-474: the auth call; on success the session    *)
(* takes the new account's token and identity *)
PageRegister(username, email, password) ==
    /\ page.pc = "done"
    /\ IF RegisterRefused(username, email)
       THEN /\ page' = [kind |-> "register", pc |-> "done", status |-> 200]
            /\ UNCHANGED <<users, session>>
       ELSE LET u == NewUser(username, email, password)
            IN /\ users' = users \cup {u}
               /\ session' = LoggedIn(Token(str(u.id)), username)
               /\ page' = [kind |-> "register", pc |-> "done",
                           status |-> 303]
    /\ UNCHANGED <<db, disk, now, nextId, rq, started, hist>>

(* POST /logout, lines 476-480 *)
PageLogout ==
    /\ page.pc = "done"
    /\ session # NoSession
    /\ session' = NoSession
    /\ page' = [kind |-> "logout", pc |-> "done", status |-> 303]
    /\ UNCHANGED <<db, disk, now, nextId, rq, started, hist, users>>

----------------------------------------------------------------------------
(* web_service pages.py download_file, lines 169-218: the                  *)
(* Content-Disposition header.  A name is the sequence of its characters'  *)
(* code points, a header value the pair of its filename="..." parameter    *)
(* and its filename*=UTF-8''... parameter (None when left out); the text    *)
(* around the two parameters is fixed ASCII.                               *)

(* str.strip(): the ASCII whitespace characters *)
IsSpace(c) == c \in {9, 10, 11, 12, 13, 28, 29, 30, 31, 32}

(* 'file' *)
PlaceholderName == <<102, 105, 108, 101>>

(* filename.encode('ascii', 'ignore').decode('ascii') *)
ascii_ignore(filename) == SelectSeq(filename, LAMBDA c : c < 128)

(* as safe_filename, but a blank name is kept *)
safe_filename_keep_blank(filename) ==
    IF ascii_ignore(filename) = <<>> THEN PlaceholderName
    ELSE ascii_ignore(filename)

(* lines 174-178 *)
safe_filename(filename) ==
    LET a == ascii_ignore(filename)
    IN IF a = <<>> \/ \A i \in 1..Len(a) : IsSpace(a[i])
       THEN PlaceholderName
       ELSE a

(* one character's UTF-8 bytes *)
utf8(c) ==
    IF c < 128 THEN <<c>>
    ELSE IF c < 2048 THEN <<192 + (c \div 64), 128 + (c % 64)>>
    ELSE IF c < 65536
    THEN <<224 + (c \div 4096), 128 + ((c \div 64) % 64), 128 + (c % 64)>>
    ELSE <<240 + (c \div 262144), 128 + ((c \div 4096) % 64),
           128 + ((c \div 64) % 64), 128 + (c % 64)>>

(* line 182: filename.encode('utf-8') *)
RECURSIVE filename_bytes(_)
filename_bytes(filename) ==
    IF filename = <<>> THEN <<>>
    ELSE utf8(Head(filename)) \o filename_bytes(Tail(filename))

(* one upper-case hexadecimal digit *)
HexDigit(n) == IF n < 10 THEN 48 + n ELSE 55 + n

(* lines 186-190: a printable ASCII byte other than " % ' and \ stays,      *)
(* any other byte becomes %XX *)
encoded_part(b) ==
    IF 32 <= b /\ b <= 126 /\ b \notin {34, 37, 39, 92}
    THEN <<b>>
    ELSE <<37, HexDigit(b \div 16), HexDigit(b % 16)>>

RECURSIVE encoded_parts(_)
encoded_parts(bytes) ==
    IF bytes = <<>> THEN <<>>
    ELSE encoded_part(Head(bytes)) \o encoded_parts(Tail(bytes))

(* line 191 *)
encoded_filename(filename) == encoded_parts(filename_bytes(filename))

(* str.encode('latin-1') succeeds *)
IsLatin1(text) == \A i \in 1..Len(text) : text[i] < 256

(* lines 195-201 and 212-218: the extended form when it is ASCII and       *)
(* Latin-1, else the fallback alone *)
content_disposition(filename) ==
    LET safe == safe_filename(filename)
        encoded == encoded_filename(filename)
    IN IF (\A i \in 1..Len(encoded) : encoded[i] < 128)
           /\ IsLatin1(safe \o encoded)
       THEN [filename |-> safe, filename_star |-> Some(encoded)]
       ELSE [filename |-> safe, filename_star |-> None]

----------------------------------------------------------------------------
(* web_service pages.py download_file (POST /download/{token}), lines      *)
(* 155-232, with client.py get_file_info and download_file                 *)

(* the characters of the names the model uploads *)
Characters(filename) ==
    CASE filename = "f.txt" -> <<102, 46, 116, 120, 116>>
      [] OTHER -> <<>>

(* client.py 120-121: the password is sent only when it is truthy *)
ClientPassword(password) == IF TruthyStr(password) THEN password ELSE None

(* as ProxyStatus, but every upstream failure is answered 404 *)
ProxyStatusNotFound(status) == 404

(* lines 222-229: the status raised for an upstream HTTPStatusError *)
ProxyStatus(status) ==
    CASE status = 404 -> 404
      [] status = 403 -> 403
      [] status = 410 -> 410
      [] OTHER -> status

ProxyDetail(status) ==
    CASE status = 404 -> "File not found"
      [] status = 403 -> "Invalid password"
      [] status = 410 -> "File expired or download limit reached"
      [] OTHER -> "HTTPStatusError"

(* the proxy's error response; stage tells which upstream call failed *)
ProxyError(status, stage) ==
    [kind |-> "download", pc |-> "done", status |-> ProxyStatus(status),
     detail |-> ProxyDetail(status), stage |-> stage, upstream |-> status]

(* lines 163-164: the Info call, answered at once *)
PageDownload(w, token, password) ==
    /\ page.pc = "done"
    /\ GetFileInfoStep(w, token)
    /\ page' = [kind |-> "download", pc |-> "pd_info", status |-> 0,
                token |-> token, password |-> password, worker |-> w,
                info_status |-> rq'[w].status,
                filename |-> IF rq'[w].status = 200
                             THEN Some(rq'[w].info.filename) ELSE None]
    /\ UNCHANGED <<users, session>>

(* lines 221-229 for the Info call: raise_for_status raised *)
PageDownloadInfoFails ==
    /\ page.pc = "pd_info"
    /\ page.info_status # 200
    /\ page' = ProxyError(page.info_status, "info")
    /\ UNCHANGED <<db, disk, now, nextId, rq, started, hist, users, session>>

(* line 167: the Download call *)
PageDownloadCall ==
    /\ page.pc = "pd_info"
    /\ page.info_status = 200
    /\ DownloadReadStep(page.worker, page.token, ClientPassword(page.password))
    /\ page' = [page EXCEPT !.pc = "pd_download"]
    /\ UNCHANGED <<users, session>>

(* lines 169-229: the file service has answered the Download call; the     *)
(* bytes with the header, or the error *)
PageDownloadReturns ==
    /\ page.pc = "pd_download"
    /\ rq[page.worker].pc = "done"
    /\ page' = IF rq[page.worker].status = 200
               THEN [kind |-> "download", pc |-> "done", status |-> 200,
                     detail |-> "file", stage |-> "download", upstream |-> 200,
                     body |-> rq[page.worker].body,
                     header |->
                         content_disposition(Characters(Val(page.filename)))]
               ELSE ProxyError(rq[page.worker].status, "download")
    /\ UNCHANGED <<db, disk, now, nextId, rq, started, hist, users, session>>

----------------------------------------------------------------------------
(* web_service pages.py update_file_settings (POST /file/{token}/settings), *)
(* lines 502-535, with client.py update_file                                *)

(* lines 517-521: a falsy form value becomes None; client.py 71-80 then     *)
(* sends the values that are not None, and remove_password when it is set   *)
WebFileUpdate(form) ==
    FileUpdate(IF TruthyStr(form.password) THEN form.password ELSE None,
               IF TruthyInt(form.expires_days) THEN form.expires_days ELSE None,
               IF TruthyInt(form.expires_hours) THEN form.expires_hours
               ELSE None,
               IF TruthyInt(form.max_downloads) THEN form.max_downloads
               ELSE None,
               form.remove_password)

(* as ClientUserId, but the caller's identity is never sent *)
ClientUserIdAbsent(user_id) == None

(* client.py 82-84: the user_id parameter is sent when it is truthy *)
ClientUserId(user_id) == IF user_id # "" THEN Some(user_id) ELSE None

(* lines 514-531: the session's identity, then the update request *)
PageSettings(w, token, form, temp_user_id) ==
    /\ page.pc = "done"
    /\ LET g == get_user_id(session, temp_user_id)
       IN /\ session' = g.session
          /\ UpdateReadStep(w, token, WebFileUpdate(form),
                            ClientUserId(g.user_id))
    /\ page' = [kind |-> "settings", pc |-> "settings_wait", status |-> 0,
                worker |-> w, token |-> token]
    /\ UNCHANGED users

(* lines 532-535: the file service has answered; redirect or error page *)
PageSettingsReturns ==
    /\ page.pc = "settings_wait"
    /\ rq[page.worker].pc = "done"
    /\ page' = [kind |-> "settings", pc |-> "done",
                status |-> IF rq[page.worker].status = 200 THEN 303 ELSE 500]
    /\ UNCHANGED <<db, disk, now, nextId, rq, started, hist, users, session>>

----------------------------------------------------------------------------
(* The requests the service is sent *)

UnknownToken == "t0"
RequestTokens == Tokens \cup {UnknownToken}
Limits == OptSet(0..MaxLimit)
UploadForms ==
    {UploadForm(fn, c, p, None, h, m, u) :
        fn \in Filenames, c \in Contents, p \in OptSet({"a"}),
        h \in OptSet({0, 1}), m \in Limits, u \in OptSet({"u1"})}
SuppliedPasswords == OptSet({"a", "b"})
CallerIds == OptSet({"", "u1", "u2"})
FileUpdates ==
    {FileUpdate(p, None, h, m, r) :
        p \in OptSet({"", "b"}), h \in OptSet({0}),
        m \in Limits, r \in BOOLEAN}

(* Spec: the requests are served one after another by one worker; the     *)
(* clock may move between any two steps of a handler.                      *)
Serial == {1}

Next ==
    \/ Tick
    \/ \E w \in Serial, f \in UploadForms, k \in StoredNames, t \in Tokens :
            UploadWrite(w, f, k, t)
    \/ \E w \in Serial : UploadCommit(w)
    \/ \E w \in Serial, t \in RequestTokens, p \in SuppliedPasswords :
            DownloadRead(w, t, p)
    \/ \E w \in Serial : DownloadDecide(w)
    \/ \E w \in Serial : DownloadCommit(w)
    \/ \E w \in Serial : DownloadServe(w)
    \/ \E w \in Serial, t \in RequestTokens : GetFileInfo(w, t)
    \/ \E w \in Serial, o \in Users : GetUserFiles(w, o)
    \/ \E w \in Serial, t \in RequestTokens, u \in FileUpdates,
          c \in CallerIds :
            UpdateRead(w, t, u, c)
    \/ \E w \in Serial : UpdateCommit(w)
    \/ \E w \in Serial, o \in Users, n \in Users : TransferRead(w, o, n)
    \/ \E w \in Serial : TransferCommit(w)
    \/ \E w \in Serial, t \in RequestTokens : DeleteRead(w, t)
    \/ \E w \in Serial : DeleteRemove(w)
    \/ \E w \in Serial : DeleteCommit(w)

Spec == Init /\ [][Next]_vars

(* SpecAccounting: several workers serve uploads and downloads of          *)
(* unprotected files at once; their steps interleave freely.               *)
PlainForms ==
    {UploadForm(fn, c, None, None, None, m, None) :
        fn \in Filenames, c \in Contents, m \in Limits}

NextAccounting ==
    \/ \E w \in Workers, f \in PlainForms, k \in StoredNames, t \in Tokens :
            UploadWrite(w, f, k, t)
    \/ \E w \in Workers : UploadCommit(w)
    \/ \E w \in Workers, t \in Tokens : DownloadRead(w, t, None)
    \/ \E w \in Workers : DownloadDecide(w)
    \/ \E w \in Workers : DownloadCommit(w)
    \/ \E w \in Workers : DownloadServe(w)

SpecAccounting == Init /\ [][NextAccounting]_vars

(* SpecExpiry: several workers serve uploads, expiry updates, downloads    *)
(* and Info requests at once while the clock moves.                        *)
ExpiryForms ==
    {UploadForm(fn, c, None, None, h, None, None) :
        fn \in Filenames, c \in Contents, h \in OptSet({0, 1})}
ExpiryUpdates == {FileUpdate(None, None, Some(h), None, FALSE) : h \in {0, 1}}

NextExpiry ==
    \/ Tick
    \/ \E w \in Workers, f \in ExpiryForms, k \in StoredNames, t \in Tokens :
            UploadWrite(w, f, k, t)
    \/ \E w \in Workers : UploadCommit(w)
    \/ \E w \in Workers, t \in Tokens, p \in {None} :
            DownloadRead(w, t, p)
    \/ \E w \in Workers : DownloadDecide(w)
    \/ \E w \in Workers : DownloadCommit(w)
    \/ \E w \in Workers : DownloadServe(w)
    \/ \E w \in Workers, t \in Tokens : GetFileInfo(w, t)
    \/ \E w \in Workers, t \in Tokens, u \in ExpiryUpdates :
            UpdateRead(w, t, u, None)
    \/ \E w \in Workers : UpdateCommit(w)

SpecExpiry == Init /\ [][NextExpiry]_vars

(* SpecPatch: one worker serves uploads by user u1 and credential updates *)
(* by any caller, one after another.                                       *)
PasswordForms ==
    {UploadForm(fn, c, p, None, None, None, Some("u1")) :
        fn \in Filenames, c \in Contents, p \in OptSet({"a"})}
PasswordUpdates ==
    {FileUpdate(p, None, None, None, r) :
        p \in OptSet({"", "a", "b"}), r \in BOOLEAN}

NextPatch ==
    \/ \E w \in Serial, f \in PasswordForms, k \in StoredNames, t \in Tokens :
            UploadWrite(w, f, k, t)
    \/ \E w \in Serial : UploadCommit(w)
    \/ \E w \in Serial, t \in RequestTokens, u \in PasswordUpdates,
          c \in CallerIds :
            UpdateRead(w, t, u, c)
    \/ \E w \in Serial : UpdateCommit(w)

SpecPatch == Init /\ [][NextPatch]_vars

(* SpecFrame: several workers serve uploads by user u1, downloads, Info,    *)
(* List by owner and updates of every policy field at once.                *)
FrameForms ==
    {UploadForm(fn, c, Some("a"), None, Some(1), Some(MaxLimit), Some("u1")) :
        fn \in Filenames, c \in Contents}
FrameUpdates ==
    {FileUpdate(p, None, h, m, FALSE) :
        p \in OptSet({"b"}), h \in OptSet({0}), m \in OptSet({0})}

NextFrame ==
    \/ \E w \in Workers, f \in FrameForms, k \in StoredNames, t \in Tokens :
            UploadWrite(w, f, k, t)
    \/ \E w \in Workers : UploadCommit(w)
    \/ \E w \in Workers, t \in Tokens : DownloadRead(w, t, Some("a"))
    \/ \E w \in Workers : DownloadDecide(w)
    \/ \E w \in Workers : DownloadCommit(w)
    \/ \E w \in Workers : DownloadServe(w)
    \/ \E w \in Workers, t \in Tokens : GetFileInfo(w, t)
    \/ \E w \in Workers : GetUserFiles(w, "u1")
    \/ \E w \in Workers, t \in Tokens, u \in FrameUpdates :
            UpdateRead(w, t, u, Some("u1"))
    \/ \E w \in Workers : UpdateCommit(w)

SpecFrame == Init /\ [][NextFrame]_vars

(* SpecTransfer: one worker serves uploads by any owner or none, under two  *)
(* tokens, and ownership transfers, one after another.                     *)
TransferTokens == {"t1", "t2"}
TransferNames == {"k1", "k2"}
OwnerForms ==
    {UploadForm(fn, c, None, None, None, None, u) :
        fn \in Filenames, c \in Contents, u \in OptSet(Users)}

NextTransfer ==
    \/ \E w \in Serial, f \in OwnerForms, k \in TransferNames,
          t \in TransferTokens :
            UploadWrite(w, f, k, t)
    \/ \E w \in Serial : UploadCommit(w)
    \/ \E w \in Serial, o \in Users, n \in Users : TransferRead(w, o, n)
    \/ \E w \in Serial : TransferCommit(w)

SpecTransfer == Init /\ [][NextTransfer]_vars

(* SpecStore: one worker serves uploads under two tokens, two stored names  *)
(* and two byte contents, downloads, Info, updates and deletes, one after  *)
(* another.                                                                *)
StoreContents == {"b1", "b2"}
StoreForms ==
    {UploadForm(fn, c, p, None, None, None, None) :
        fn \in Filenames, c \in StoreContents, p \in OptSet({"a"})}
StoreUpdates ==
    {FileUpdate(None, None, None, Some(MaxLimit), FALSE),
     FileUpdate(None, None, None, None, TRUE)}
StoreTokens == TransferTokens \cup {UnknownToken}

NextStore ==
    \/ \E w \in Serial, f \in StoreForms, k \in TransferNames,
          t \in TransferTokens :
            UploadWrite(w, f, k, t)
    \/ \E w \in Serial : UploadCommit(w)
    \/ \E w \in Serial, t \in StoreTokens, p \in OptSet({"a"}) :
            DownloadRead(w, t, p)
    \/ \E w \in Serial : DownloadDecide(w)
    \/ \E w \in Serial : DownloadCommit(w)
    \/ \E w \in Serial : DownloadServe(w)
    \/ \E w \in Serial, t \in StoreTokens : GetFileInfo(w, t)
    \/ \E w \in Serial, t \in StoreTokens, u \in StoreUpdates :
            UpdateRead(w, t, u, None)
    \/ \E w \in Serial : UpdateCommit(w)
    \/ \E w \in Serial, t \in StoreTokens : DeleteRead(w, t)
    \/ \E w \in Serial : DeleteRemove(w)
    \/ \E w \in Serial : DeleteCommit(w)

SpecStore == Init /\ [][NextStore]_vars

(* SpecWeb: one browser session uploads through the web service, logs in, *)
(* registers and logs out; the file service serves the web service's       *)
(* requests one after another.                                             *)
TempIds == {"s1", "s2"}
Usernames == {"alice"}
Emails == {"a@x.io"}
AccountPasswords == {"pw1", "pw2"}
WebForms ==
    {UploadForm(fn, c, None, None, None, None, None) :
        fn \in Filenames, c \in Contents}

NextWeb ==
    \/ \E w \in Serial, f \in WebForms, k \in TransferNames,
          t \in TransferTokens, s \in TempIds :
            PageUpload(w, f, k, t, s)
    \/ \E w \in Serial : UploadCommit(w)
    \/ PageUploadReturns
    \/ \E n \in Usernames, e \in Emails, p \in AccountPasswords :
            PageRegister(n, e, p)
    \/ \E n \in Usernames, p \in AccountPasswords, s \in TempIds :
            PageLogin(n, p, s)
    \/ \E w \in Serial : PageLoginTransfer(w)
    \/ PageLoginTransferFails
    \/ \E w \in Serial : TransferCommit(w)
    \/ PageLoginReturns
    \/ PageLogout

SpecWeb == Init /\ [][NextWeb]_vars

(* SpecCrash: one worker serves uploads, downloads, Info and deletes, one  *)
(* after another; a handler may be cut short between any two steps.        *)
CrashForms ==
    {UploadForm(fn, c, p, None, None, m, None) :
        fn \in Filenames, c \in Contents, p \in OptSet({"a"}),
        m \in OptSet({MaxLimit})}

NextCrash ==
    \/ \E w \in Serial, f \in CrashForms, k \in StoredNames, t \in Tokens :
            UploadWrite(w, f, k, t)
    \/ \E w \in Serial : UploadCommit(w)
    \/ \E w \in Serial, t \in RequestTokens, p \in SuppliedPasswords :
            DownloadRead(w, t, p)
    \/ \E w \in Serial : DownloadDecide(w)
    \/ \E w \in Serial : DownloadCommit(w)
    \/ \E w \in Serial : DownloadServe(w)
    \/ \E w \in Serial, t \in RequestTokens : GetFileInfo(w, t)
    \/ \E w \in Serial, t \in RequestTokens : DeleteRead(w, t)
    \/ \E w \in Serial : DeleteRemove(w)
    \/ \E w \in Serial : DeleteCommit(w)
    \/ \E w \in Serial : Crash(w)

SpecCrash == Init /\ [][NextCrash]_vars

(* SpecLimit: one worker serves uploads with every combination of          *)
(* credential, days, hours and limit, downloads and limit updates, one      *)
(* after another, while the clock moves.                                   *)
LimitForms ==
    {UploadForm(fn, c, p, d, h, m, None) :
        fn \in Filenames, c \in Contents, p \in OptSet({"a"}),
        d \in OptSet({0, 1}), h \in OptSet({0, 1}), m \in Limits}
LimitUpdates == {FileUpdate(None, None, None, Some(m), FALSE) : m \in 0..MaxLimit}

NextLimit ==
    \/ Tick
    \/ \E w \in Serial, f \in LimitForms, k \in StoredNames, t \in Tokens :
            UploadWrite(w, f, k, t)
    \/ \E w \in Serial : UploadCommit(w)
    \/ \E w \in Serial, t \in Tokens, p \in SuppliedPasswords :
            DownloadRead(w, t, p)
    \/ \E w \in Serial : DownloadDecide(w)
    \/ \E w \in Serial : DownloadCommit(w)
    \/ \E w \in Serial : DownloadServe(w)
    \/ \E w \in Serial, t \in Tokens, u \in LimitUpdates :
            UpdateRead(w, t, u, None)
    \/ \E w \in Serial : UpdateCommit(w)

SpecLimit == Init /\ [][NextLimit]_vars

(* SpecHeader: the Content-Disposition header of every name of up to       *)
(* MaxNameLen characters: space, the quote, the percent sign, a letter, a   *)
(* Latin-1 letter and characters of two, three and four UTF-8 bytes.        *)
NameChars == {32, 34, 37, 65, 233, 1046, 8364, 128512}
Names == UNION {[1..n -> NameChars] : n \in 1..MaxNameLen}

InitHeader ==
    /\ db = EmptyFn
    /\ disk = EmptyFn
    /\ now = 0
    /\ nextId = 1
    /\ rq = [w \in Workers |-> Idle]
    /\ started = 0
    /\ hist = [i \in Ids |-> NoHist]
    /\ users = {}
    /\ session = NoSession
    /\ page \in {[kind |-> "name", pc |-> "done", status |-> 0, filename |-> n] :
                    n \in Names}

(* lines 169-220: the response's header for the name Info gave *)
EmitHeader ==
    /\ page.kind = "name"
    /\ page' = [kind |-> "header", pc |-> "done", status |-> 200,
                filename |-> page.filename,
                header |-> content_disposition(page.filename)]
    /\ UNCHANGED <<db, disk, now, nextId, rq, started, hist, users, session>>

NextHeader == EmitHeader

SpecHeader == InitHeader /\ [][NextHeader]_vars

(* SpecProxy: a browser downloads through the web service, whose calls the *)
(* file service serves on one worker, while another worker serves direct   *)
(* uploads and deletes.                                                    *)
WebCalls == {1}
DirectCalls == {2}
ProxyForms ==
    {UploadForm(fn, c, p, None, None, m, None) :
        fn \in Filenames, c \in Contents, p \in OptSet({"a"}),
        m \in OptSet({0})}

NextProxy ==
    \/ \E w \in DirectCalls, f \in ProxyForms, k \in StoredNames, t \in Tokens :
            UploadWrite(w, f, k, t)
    \/ \E w \in DirectCalls : UploadCommit(w)
    \/ \E w \in DirectCalls, t \in Tokens : DeleteRead(w, t)
    \/ \E w \in DirectCalls : DeleteRemove(w)
    \/ \E w \in DirectCalls : DeleteCommit(w)
    \/ \E w \in WebCalls, t \in RequestTokens, p \in SuppliedPasswords :
            PageDownload(w, t, p)
    \/ PageDownloadInfoFails
    \/ PageDownloadCall
    \/ \E w \in WebCalls : DownloadDecide(w)
    \/ \E w \in WebCalls : DownloadCommit(w)
    \/ \E w \in WebCalls : DownloadServe(w)
    \/ PageDownloadReturns

SpecProxy == Init /\ [][NextProxy]_vars

(* SpecUploadCrash: several workers serve uploads, downloads and Info       *)
(* requests at once; any handler may be cut short between two steps.       *)
BytesForms ==
    {UploadForm(fn, c, None, None, None, None, None) :
        fn \in Filenames, c \in Contents}

NextUploadCrash ==
    \/ \E w \in Workers, f \in BytesForms, k \in TransferNames,
          t \in TransferTokens :
            UploadWrite(w, f, k, t)
    \/ \E w \in Workers : UploadCommit(w)
    \/ \E w \in Workers : Crash(w)
    \/ \E w \in Workers, t \in TransferTokens : DownloadRead(w, t, None)
    \/ \E w \in Workers : DownloadDecide(w)
    \/ \E w \in Workers : DownloadCommit(w)
    \/ \E w \in Workers : DownloadServe(w)
    \/ \E w \in Workers, t \in TransferTokens : GetFileInfo(w, t)

SpecUploadCrash == Init /\ [][NextUploadCrash]_vars

(* SpecContend: several workers serve uploads by user u1, downloads, an     *)
(* update of every policy field by u1 and the transfer from u1 to u2 at     *)
(* once.                                                                   *)
ContendForms ==
    {UploadForm(fn, c, Some("a"), None, None, None, Some("u1")) :
        fn \in Filenames, c \in Contents}
ContendUpdates == {FileUpdate(Some("b"), None, Some(1), Some(MaxLimit), FALSE)}

NextContend ==
    \/ \E w \in Workers, f \in ContendForms, k \in StoredNames, t \in Tokens :
            UploadWrite(w, f, k, t)
    \/ \E w \in Workers : UploadCommit(w)
    \/ \E w \in Workers, t \in Tokens : DownloadRead(w, t, Some("a"))
    \/ \E w \in Workers : DownloadDecide(w)
    \/ \E w \in Workers : DownloadCommit(w)
    \/ \E w \in Workers : DownloadServe(w)
    \/ \E w \in Workers, t \in Tokens, u \in ContendUpdates :
            UpdateRead(w, t, u, Some("u1"))
    \/ \E w \in Workers : UpdateCommit(w)
    \/ \E w \in Workers : TransferRead(w, "u1", "u2")
    \/ \E w \in Workers : TransferCommit(w)

SpecContend == Init /\ [][NextContend]_vars

(* SpecWebUpload: one browser session uploads through the web service     *)
(* with every combination of credential, days, hours and limit, absent, 0   *)
(* or set, next to the same uploads sent to the file service directly.      *)
PolicyForms ==
    {UploadForm(fn, c, p, d, h, m, None) :
        fn \in Filenames, c \in Contents, p \in OptSet({"a"}),
        d \in OptSet({0, 1}), h \in OptSet({0, 1}), m \in OptSet({0, 1})}

NextWebUpload ==
    \/ Tick
    \/ \E w \in Serial, f \in PolicyForms, k \in StoredNames, t \in Tokens :
            PageUpload(w, f, k, t, "s1")
    \/ \E w \in Serial, f \in PolicyForms, k \in StoredNames, t \in Tokens :
            /\ page.pc = "done"
            /\ UploadWrite(w, f, k, t)
    \/ \E w \in Serial : UploadCommit(w)
    \/ PageUploadReturns

SpecWebUpload == Init /\ [][NextWebUpload]_vars

(* SpecSettings: one browser session uploads, registers, logs in and out   *)
(* and updates the settings of any token through the web service; records   *)
(* without an owner are uploaded to the file service directly.              *)
SettingsForms ==
    {FileUpdate(Some("b"), None, None, None, FALSE),
     FileUpdate(None, None, None, Some(1), FALSE)}

NextSettings ==
    \/ \E w \in Serial, f \in WebForms, k \in StoredNames, t \in Tokens,
          s \in TempIds :
            PageUpload(w, f, k, t, s)
    \/ \E w \in Serial, f \in WebForms, k \in StoredNames, t \in Tokens :
            /\ page.pc = "done"
            /\ UploadWrite(w, f, k, t)
    \/ \E w \in Serial : UploadCommit(w)
    \/ PageUploadReturns
    \/ \E n \in Usernames, e \in Emails, p \in AccountPasswords :
            PageRegister(n, e, p)
    \/ \E n \in Usernames, p \in AccountPasswords, s \in TempIds :
            PageLogin(n, p, s)
    \/ \E w \in Serial : PageLoginTransfer(w)
    \/ PageLoginTransferFails
    \/ \E w \in Serial : TransferCommit(w)
    \/ PageLoginReturns
    \/ PageLogout
    \/ \E w \in Serial, t \in RequestTokens, f \in SettingsForms,
          s \in TempIds :
            PageSettings(w, t, f, s)
    \/ \E w \in Serial : UpdateCommit(w)
    \/ PageSettingsReturns

SpecSettings == Init /\ [][NextSettings]_vars

(* SpecPermanent: several workers serve uploads by user u1 with or without *)
(* an expiry, downloads, Info, the transfer from u1 to u2 and expiry       *)
(* updates sent by u1 or without a caller identity, while the clock moves. *)
PermanentForms ==
    {UploadForm(fn, c, None, None, h, None, Some("u1")) :
        fn \in Filenames, c \in Contents, h \in OptSet({0})}
PermanentCallers == {None, Some("u1")}

NextPermanent ==
    \/ Tick
    \/ \E w \in Workers, f \in PermanentForms, k \in StoredNames,
          t \in Tokens :
            UploadWrite(w, f, k, t)
    \/ \E w \in Workers : UploadCommit(w)
    \/ \E w \in Workers, t \in Tokens : DownloadRead(w, t, None)
    \/ \E w \in Workers : DownloadDecide(w)
    \/ \E w \in Workers : DownloadCommit(w)
    \/ \E w \in Workers : DownloadServe(w)
    \/ \E w \in Workers, t \in Tokens : GetFileInfo(w, t)
    \/ \E w \in Workers, t \in Tokens, u \in ExpiryUpdates,
          c \in PermanentCallers :
            UpdateRead(w, t, u, c)
    \/ \E w \in Workers : UpdateCommit(w)
    \/ \E w \in Workers : TransferRead(w, "u1", "u2")
    \/ \E w \in Workers : TransferCommit(w)

SpecPermanent == Init /\ [][NextPermanent]_vars

----------------------------------------------------------------------------
(* Properties *)

Min(a, b) == IF a <= b THEN a ELSE b

(* the downloads of record i that are still being handled *)
DownloadsInFlight(i) ==
    {w \in Workers :
        /\ rq[w].kind = "download"
        /\ \/ rq[w].pc \in {"dl_check", "dl_commit"} /\ rq[w].snap.id = i
           \/ rq[w].pc = "dl_serve" /\ rq[w].id = i}

(* worker w's download is decided in this step *)
Decides(w) == rq[w].pc = "dl_check" /\ rq'[w].pc # "dl_check"

(* what the decision step answered: the denial's detail, "ok" when allowed *)
Decision(w) == IF rq'[w].pc = "dl_commit" THEN "ok" ELSE rq'[w].detail

(* C1: for a record with download_limit = N that has no credential and no  *)
(* expiry and was never updated or deleted, at most N downloads are ever   *)
(* decided Allowed, and once no download of it is in flight, M finished    *)
(* downloads have given exactly min(M, N) Allowed and M - min(M, N)        *)
(* LimitReached.                                                           *)
C1_ExactSplit ==
    \A i \in DOMAIN db :
        (db[i].max_downloads # None /\ ~hist[i].touched) =>
            LET N == Val(db[i].max_downloads)
                M == hist[i].allowed + hist[i].limited
            IN /\ hist[i].allowed <= N
               /\ DownloadsInFlight(i) = {} =>
                      /\ hist[i].allowed = Min(M, N)
                      /\ hist[i].limited = M - Min(M, N)

(* C2: every stored record whose download_limit is set has                 *)
(* download_count <= download_limit.                                       *)
C2_CountWithinLimit ==
    \A i \in DOMAIN db :
        db[i].max_downloads # None =>
            db[i].downloads_count <= Val(db[i].max_downloads)

(* C3: a record's download_count is 0 when the record is created and no    *)
(* step ever lowers the stored download_count.                             *)
C3_CountNeverDecreases ==
    [][/\ \A i \in DOMAIN db' \ DOMAIN db : db'[i].downloads_count = 0
       /\ \A i \in DOMAIN db \cap DOMAIN db' :
              db'[i].downloads_count >= db[i].downloads_count]_vars

(* C4: once no download of a record is in flight, its stored               *)
(* download_count equals the number of downloads decided Allowed.          *)
C4_CountEqualsAllowed ==
    \A i \in DOMAIN db :
        DownloadsInFlight(i) = {} => db[i].downloads_count = hist[i].allowed

(* the first failing rule of the fixed order, for record f, the supplied   *)
(* credential and the time t *)
FirstFailingRule(f, supplied, t) ==
    IF f.password # None /\ f.password # supplied THEN "Invalid password"
    ELSE IF f.expires_at # None /\ t > Val(f.expires_at) THEN "File has expired"
    ELSE IF f.max_downloads # None /\ f.downloads_count >= Val(f.max_downloads)
    THEN "Download limit reached"
    ELSE "ok"

(* C5: a download of an unknown token is answered 404; otherwise its       *)
(* outcome is the first failing rule in the order credential (403),        *)
(* expiry (410), limit (410), and Allowed when none fails.                 *)
C5_FixedOrder ==
    [][\A w \in Workers :
          /\ (rq[w].pc = "done" /\ rq'[w].pc = "done" /\ rq'[w] # rq[w]
                /\ rq'[w].kind = "download") =>
                 /\ rq'[w].status = 404
                 /\ FirstByToken(rq'[w].token) = None
          /\ (rq[w].pc = "done" /\ rq'[w].pc = "dl_check") =>
                 FirstByToken(rq'[w].snap.token) = Some(rq'[w].snap)
          /\ Decides(w) =>
                 /\ Decision(w) =
                        FirstFailingRule(rq[w].snap, rq[w].password, now)
                 /\ rq'[w].status = StatusOf(Decision(w))]_vars

(* C6: a download of a record whose credential is set, to any text, is     *)
(* denied with WrongCredential unless the supplied credential equals the   *)
(* stored one; a record with no credential never denies for it.            *)
C6_CredentialRequired ==
    [][\A w \in Workers :
          Decides(w) =>
              LET f == rq[w].snap
              IN IF f.password # None
                 THEN (Decision(w) = "Invalid password")
                          <=> (rq[w].password # f.password)
                 ELSE Decision(w) # "Invalid password"]_vars

(* C7: a download that passes the credential rule is answered Expired      *)
(* exactly when now > expires_at of the record it read, and Info reports   *)
(* is_expired exactly when now > the record's expires_at; with no          *)
(* expires_at neither ever reports Expired.                                *)
C7_ExpiryStrictlyAfter ==
    [][\A w \in Workers :
          /\ (Decides(w) /\ Decision(w) # "Invalid password") =>
                 ((Decision(w) = "File has expired")
                     <=> /\ rq[w].snap.expires_at # None
                         /\ now > Val(rq[w].snap.expires_at))
          /\ (rq'[w] # rq[w] /\ rq'[w].kind = "info" /\ rq'[w].status = 200) =>
                 LET e == db[rq'[w].info.id].expires_at
                 IN rq'[w].info.is_expired <=> (e # None /\ now > Val(e))]_vars

(* a download was answered Expired at the instant after expires_at *)
C7_Witness ==
    \E w \in Workers, i \in DOMAIN db :
        /\ rq[w].kind = "download" /\ rq[w].detail = "File has expired"
        /\ db[i].expires_at = Some(now - 1)
        /\ db[i].password = None

(* the policy fields of a row *)
Policy(f) == <<f.password, f.expires_at, f.max_downloads>>

(* worker w's update commits in this step *)
Commits(w) == rq[w].pc = "upd_commit" /\ rq'[w].pc = "done"

(* C8: every update_policy that changes credential, expires_at or          *)
(* download_limit of a record was made by a caller whose identity equals   *)
(* the record's owner_id (no identity for an unowned record).              *)
C8_OnlyOwnerUpdates ==
    [][\A w \in Workers :
          Commits(w) =>
              LET i == rq[w].snap.id
              IN (i \in DOMAIN db /\ Policy(db'[i]) # Policy(db[i])) =>
                     rq[w].user_id = db[i].user_id]_vars

(* the caller identity and the row an update request was made with *)
UpdateCaller(r) == r.user_id
UpdateTarget(r) ==
    IF r.pc = "done" THEN FirstByToken(r.token) ELSE Some(r.snap)

(* C9: an update_policy whose requesting_owner is present and differs      *)
(* from the stored owner_id is answered 403, one on an unknown token 404,  *)
(* and neither changes any record.                                         *)
C9_MismatchForbidden ==
    [][\A w \in Workers :
          (rq[w].pc = "done" /\ rq'[w] # rq[w] /\ rq'[w].kind = "update") =>
              LET f == UpdateTarget(rq'[w])
                  c == UpdateCaller(rq'[w])
              IN /\ f = None => (rq'[w].status = 404 /\ db' = db)
                 /\ (f # None /\ c # None /\ c # Val(f).user_id) =>
                        (rq'[w].status = 403 /\ db' = db)]_vars

(* C10: after an update_policy with remove_password the record has no      *)
(* credential, whatever password the patch carries; without the flag and   *)
(* with a password in the patch the stored credential is that password.    *)
C10_RemoveWins ==
    [][\A w \in Workers :
          (Commits(w) /\ rq'[w].status = 200) =>
              LET u == rq[w].file_update
                  i == rq[w].snap.id
              IN /\ u.remove_password => db'[i].password = None
                 /\ (~u.remove_password /\ u.password # None) =>
                        db'[i].password = u.password]_vars

(* an update carrying both the flag and a password has cleared a           *)
(* credential *)
C10_Witness ==
    \E w \in Workers :
        /\ rq[w].kind = "update" /\ rq[w].pc = "done" /\ rq[w].status = 200
        /\ rq[w].file_update.remove_password
        /\ rq[w].file_update.password # None
        /\ ~rq[w].info.has_password
        /\ \E i \in DOMAIN db : db[i].id = rq[w].info.id /\ db[i].password = None

(* the fields of a row that are not policy *)
Identity(f) ==
    <<f.id, f.token, f.stored_name, f.filename, f.user_id, f.created_at,
      f.downloads_count>>

(* worker w's step belongs to a request of one of these kinds *)
StepOf(w, kinds) ==
    /\ rq'[w] # rq[w]
    /\ IF rq[w].pc = "done" THEN rq'[w].kind \in kinds ELSE rq[w].kind \in kinds

(* C11: an update_policy leaves each of credential, expires_at and         *)
(* download_limit that is absent from the patch as it was stored, and no   *)
(* step of any update_policy changes token, storage_key, display_name,     *)
(* owner_id, created_at or download_count of any record, nor any other     *)
(* record.                                                                 *)
C11_PartialPatch ==
    [][\A w \in Workers :
          /\ StepOf(w, {"update"}) =>
                 /\ DOMAIN db' = DOMAIN db
                 /\ \A i \in DOMAIN db : Identity(db'[i]) = Identity(db[i])
          /\ Commits(w) =>
                 LET u == rq[w].file_update
                     i == rq[w].snap.id
                 IN /\ \A j \in DOMAIN db \ {i} : db'[j] = db[j]
                    /\ i \in DOMAIN db =>
                          /\ (u.password = None /\ ~u.remove_password) =>
                                 db'[i].password = db[i].password
                          /\ (u.expires_days = None /\ u.expires_hours = None)
                                 => db'[i].expires_at = db[i].expires_at
                          /\ u.max_downloads = None =>
                                 db'[i].max_downloads = db[i].max_downloads]_vars

(* an update that carried only a new expiry was committed on a record that *)
(* has a credential, a limit and a download counted *)
C11_Witness ==
    \E w \in Workers, i \in DOMAIN db :
        /\ rq[w].kind = "update" /\ rq[w].pc = "done" /\ rq[w].status = 200
        /\ rq[w].info.id = i
        /\ rq[w].file_update.password = None
        /\ ~rq[w].file_update.remove_password
        /\ rq[w].file_update.max_downloads = None
        /\ rq[w].file_update.expires_hours # None
        /\ db[i].password = Some("a")
        /\ db[i].max_downloads = Some(MaxLimit)
        /\ db[i].downloads_count > 0
        /\ db[i].expires_at = Some(0)

(* C12: no step of an Info or List-by-owner request changes any field of   *)
(* any record, download_count included, nor the stored bytes.              *)
C12_QueriesReadOnly ==
    [][\A w \in Workers :
          StepOf(w, {"info", "list"}) => (db' = db /\ disk' = disk)]_vars

(* Info and List by owner have both answered for a record that has a limit *)
(* it has not reached *)
C12_Witness ==
    \E v \in Workers, w \in Workers, i \in DOMAIN db :
        /\ rq[v].kind = "info" /\ rq[v].status = 200 /\ rq[v].info.id = i
        /\ rq[w].kind = "list" /\ rq[w].files # {}
        /\ db[i].max_downloads # None
        /\ db[i].downloads_count < Val(db[i].max_downloads)

(* worker w's transfer commits in this step *)
Transfers(w) == rq[w].pc = "tr_commit" /\ rq'[w].pc = "done"

(* a transfer(old, new) was answered and the same call is made again *)
CalledAgain(w) ==
    /\ rq[w].pc = "done" /\ rq[w].kind = "transfer" /\ rq[w].status = 200
    /\ rq'[w].pc = "tr_commit"
    /\ rq'[w].old_user_id = rq[w].old_user_id
    /\ rq'[w].new_user_id = rq[w].new_user_id

(* a transfer returns the number K of records owned by old and leaves      *)
(* each of them owned by new; a call that finds no record of old returns 0 *)
TransferReturnsCount(w) ==
    Transfers(w) =>
        /\ rq'[w].status = 200
        /\ rq'[w].count = Cardinality(RowsByUser(rq[w].old_user_id))
        /\ \A i \in RowsByUser(rq[w].old_user_id) :
               db'[i].user_id = Some(rq[w].new_user_id)
        /\ rq[w].files = {} => rq'[w].count = 0

(* C13 as claimed, for all identities old and new: the first               *)
(* transfer(old, new) returns K and leaves the K records owned by new, and *)
(* the same call made again right after it finds no record of old and      *)
(* returns 0.                                                              *)
C13_TransferTwice ==
    [][\A w \in Workers :
          /\ TransferReturnsCount(w)
          /\ CalledAgain(w) =>
                 (rq'[w].files = {} /\ RowsByUser(rq[w].old_user_id) = {})]_vars

(* C13 amended, for old # new: the first transfer(old, new) returns K and  *)
(* leaves the K records owned by new, and the same call made again right   *)
(* after it finds no record of old and returns 0.                          *)
C13_TransferTwiceDistinct ==
    [][\A w \in Workers :
          /\ TransferReturnsCount(w)
          /\ (CalledAgain(w) /\ rq[w].old_user_id # rq[w].new_user_id) =>
                 (rq'[w].files = {} /\ RowsByUser(rq[w].old_user_id) = {})]_vars

(* a transfer(old, new) has returned 0 and a record uploaded by old is     *)
(* owned by new *)
C13_Witness ==
    \E w \in Workers, i \in DOMAIN db :
        /\ rq[w].kind = "transfer" /\ rq[w].pc = "done" /\ rq[w].count = 0
        /\ rq[w].old_user_id # rq[w].new_user_id
        /\ hist[i].user_id = Some(rq[w].old_user_id)
        /\ db[i].user_id = Some(rq[w].new_user_id)

(* C14: a transfer(old, new) succeeds, returns the number of records owned *)
(* by old and changes nothing but the owner_id of exactly those records,   *)
(* which becomes new; when old owns nothing it returns 0 and changes       *)
(* nothing.                                                                *)
C14_TransferFrame ==
    [][\A w \in Workers :
          /\ StepOf(w, {"transfer"}) => disk' = disk
          /\ (StepOf(w, {"transfer"}) /\ ~Transfers(w)) => db' = db
          /\ Transfers(w) =>
                 LET ids == RowsByUser(rq[w].old_user_id)
                 IN /\ rq'[w].status = 200
                    /\ rq'[w].count = Cardinality(ids)
                    /\ db' = [i \in DOMAIN db |->
                                 IF i \in ids
                                 THEN [db[i] EXCEPT
                                         !.user_id = Some(rq[w].new_user_id)]
                                 ELSE db[i]]
                    /\ ids = {} => (rq'[w].count = 0 /\ db' = db)]_vars

(* a transfer has moved one record while another record, of another owner  *)
(* or of nobody, kept its owner_id *)
C14_Witness ==
    \E w \in Workers, i \in DOMAIN db, j \in DOMAIN db :
        /\ rq[w].kind = "transfer" /\ rq[w].pc = "done" /\ rq[w].count = 1
        /\ rq[w].old_user_id # rq[w].new_user_id
        /\ hist[i].user_id = Some(rq[w].old_user_id)
        /\ db[i].user_id = Some(rq[w].new_user_id)
        /\ db[j].user_id = hist[j].user_id
        /\ db[j].user_id # Some(rq[w].new_user_id)

(* a login or a registration completes in this step, and the transfer      *)
(* call, if one was made, did not fail *)
SignsIn ==
    /\ page' # page /\ page'.pc = "done" /\ page'.status = 303
    /\ page'.kind \in {"login", "register"}
    /\ page'.kind = "login" => page'.transferred

(* C15: when a login or a registration of a session that was anonymous     *)
(* completes (the transfer call, if made, having succeeded), no record is  *)
(* still owned by the session's prior identity and every record uploaded   *)
(* under it is owned by the account.                                       *)
C15_SignInTransfers ==
    [][(SignsIn /\ session.auth_token = None /\ session.user_id # None) =>
          \A i \in DOMAIN db' :
              /\ db'[i].user_id # session.user_id
              /\ hist'[i].user_id = session.user_id =>
                     db'[i].user_id = session'.user_id]_vars

(* the login page answers a refused login in this step *)
LoginRefused ==
    page.pc = "done" /\ page'.kind = "login" /\ page'.pc = "done"
        /\ page'.status = 200 /\ page' # page

(* a login whose transfer call failed completes in this step *)
LoginWithoutTransfer ==
    page.pc \in {"login_transfer", "login_wait"} /\ page'.pc = "done"
        /\ ~page'.transferred

(* the session holds the auth token and the identity of the account that   *)
(* logged in *)
HoldsAccount(s, result, username) ==
    /\ s.auth_token = Some(result.access_token)
    /\ s.user_id = Some(result.user_id)
    /\ \E u \in users : u.username = username /\ str(u.id) = result.user_id

(* C16 as claimed: a login whose transfer call fails still completes with  *)
(* the session holding the account's auth token and identity; a refused    *)
(* login leaves the whole session unchanged and attempts no transfer.      *)
C16_TransferFailureNonFatal ==
    [][/\ LoginWithoutTransfer =>
              /\ page'.status = 303
              /\ HoldsAccount(session', page.result, page.username)
       /\ LoginRefused => (session' = session /\ rq' = rq /\ db' = db)]_vars

(* C16 amended: a login whose transfer call fails still completes with the *)
(* session holding the account's auth token and identity; a refused login  *)
(* attempts no transfer and leaves the session's auth token and username   *)
(* unchanged, and its identity unchanged when it had one, while a session  *)
(* that had no identity yet gets a new ephemeral one.                      *)
C16_TransferFailureNonFatalLazyId ==
    [][/\ LoginWithoutTransfer =>
              /\ page'.status = 303
              /\ HoldsAccount(session', page.result, page.username)
       /\ LoginRefused =>
              /\ rq' = rq /\ db' = db
              /\ session'.auth_token = session.auth_token
              /\ session'.username = session.username
              /\ IF session.user_id # None
                 THEN session'.user_id = session.user_id
                 ELSE /\ session'.user_id # None
                      /\ Val(session'.user_id) \in TempIds]_vars

(* a login has completed although its transfer call failed: the session    *)
(* holds the account and a record is still owned by the prior identity *)
C16_Witness ==
    /\ page.kind = "login" /\ page.pc = "done" /\ page.status = 303
    /\ ~page.transferred
    /\ session.auth_token # None
    /\ session.user_id # Some(page.old_user_id)
    /\ \E i \in DOMAIN db : db[i].user_id = Some(page.old_user_id)

(* the records created so far, stored or deleted since *)
Created == 1..(nextId - 1)

(* C17: no two stored records share a token or a storage_key, and a record *)
(* that is created has a token and a storage_key that no record created    *)
(* before it had, deleted records included.                                *)
C17_NamesNeverReused ==
    [][/\ \A i \in DOMAIN db', j \in DOMAIN db' :
              i # j => /\ db'[i].token # db'[j].token
                       /\ db'[i].stored_name # db'[j].stored_name
       /\ \A i \in DOMAIN db' \ DOMAIN db : \A j \in Created :
              /\ hist[j].token # Some(db'[i].token)
              /\ hist[j].stored_name # Some(db'[i].stored_name)]_vars

(* worker w's upload commits or fails in this step *)
Creates(w) == rq[w].pc = "up_commit" /\ rq'[w].pc = "done"

C19_RoundTrip ==
    [][\A w \in Workers :
          (rq[w].pc = "dl_serve" /\ rq[w].id \in DOMAIN db) =>
              /\ rq'[w].status = 200
              /\ rq'[w].body = Val(hist[rq[w].id].content)]_vars

(* a record under this token was created and has been deleted *)
WasDeleted(token) ==
    \E i \in Created : hist[i].token = Some(token) /\ i \notin DOMAIN db

(* the token a request was made with *)
RequestToken(r) ==
    IF "token" \in DOMAIN r THEN r.token
    ELSE IF "snap" \in DOMAIN r THEN r.snap.token
    ELSE r.info.token

(* C20: once a record has been deleted, every later Info, Download,        *)
(* Update-policy and Delete on its token is answered 404, as for a token   *)
(* that was never issued, and none of these downloads is Allowed.          *)
C20_DeletedIsNotFound ==
    [][\A w \in Workers :
          (/\ rq[w].pc = "done" /\ rq'[w] # rq[w]
           /\ rq'[w].kind \in {"info", "download", "update", "delete"}
           /\ WasDeleted(RequestToken(rq'[w])))
          => (rq'[w].pc = "done" /\ rq'[w].status = 404)]_vars

(* worker w's download finds the record but not its bytes in this step *)
BytesMissing(w) ==
    /\ rq[w].pc = "dl_serve"
    /\ rq[w].id \in DOMAIN db
    /\ db[rq[w].id].stored_name \notin DOMAIN disk
    /\ rq'[w].pc = "done"
    /\ rq'[w].detail # "crashed"

(* worker w's download finds no record of its token in this step *)
UnknownTokenDownload(w) ==
    /\ rq[w].pc = "done"
    /\ rq'[w].pc = "done"
    /\ rq'[w] # rq[w]
    /\ rq'[w].kind = "download"

(* C21: a download that finds the record but not its backing bytes is      *)
(* answered with a failure kind (HTTP status) other than the 404 NotFound  *)
(* of an unknown token.                                                    *)
C21_BytesMissingDistinct ==
    [][\A w \in Workers :
          /\ UnknownTokenDownload(w) => rq'[w].status = 404
          /\ BytesMissing(w) => rq'[w].status # 404]_vars

(* C21, amended: a download that finds the record but not its backing      *)
(* bytes is answered 404 as an unknown token is, and differs from it only   *)
(* in the detail text: "File not found on disk", not "File not found".      *)
C21_BytesMissingDetail ==
    [][\A w \in Workers :
          /\ UnknownTokenDownload(w) =>
                 rq'[w].status = 404 /\ rq'[w].detail = "File not found"
          /\ BytesMissing(w) =>
                 rq'[w].status = 404 /\ rq'[w].detail # "File not found"]_vars

(* a stored record's download was answered that the bytes are missing *)
C21_Witness ==
    \E w \in Workers :
        /\ rq[w] = Answer("download", 404, "File not found on disk")
        /\ \E i \in DOMAIN db : db[i].stored_name \notin DOMAIN disk

(* the download worker w is deciding has the record's credential, or the   *)
(* record has none, and the record's expiry has not passed *)
Permitted(w) ==
    LET f == rq[w].snap
    IN /\ f.password = None \/ f.password = rq[w].password
       /\ f.expires_at = None \/ now <= Val(f.expires_at)

(* C22: requests served one after another, a record with download_limit =  *)
(* N that was never updated: a download with the correct credential before *)
(* expiry is allowed exactly while download_count < N, each allowed        *)
(* download raises download_count by one (1, 2, ..., N) and is served, and *)
(* every later one is denied with LimitReached.                            *)
C22_SequentialLimit ==
    [][\A w \in Serial :
          /\ (Decides(w) /\ rq[w].snap.max_downloads # None
                /\ ~hist[rq[w].snap.id].touched /\ Permitted(w)) =>
                 LET f == rq[w].snap
                 IN /\ f = db[f.id]
                    /\ f.downloads_count = hist[f.id].allowed
                    /\ Decision(w) = IF f.downloads_count < Val(f.max_downloads)
                                     THEN "ok" ELSE "Download limit reached"
          /\ (rq[w].pc = "dl_commit" /\ rq'[w].pc # "dl_commit"
                /\ ~hist[rq[w].snap.id].touched) =>
                 LET i == rq[w].snap.id
                 IN /\ rq'[w].pc = "dl_serve"
                    /\ db'[i].downloads_count = db[i].downloads_count + 1
                    /\ db[i].max_downloads # None =>
                           db'[i].downloads_count <= Val(db[i].max_downloads)
          /\ (rq[w].pc = "dl_serve" /\ rq'[w].pc # "dl_serve") =>
                 rq'[w].status = 200]_vars

(* a protected record with an expiry and the largest limit N >= 1 was      *)
(* downloaded N times and then denied with LimitReached *)
C22_Witness ==
    \E i \in DOMAIN db :
        /\ db[i].max_downloads = Some(MaxLimit)
        /\ MaxLimit >= 1
        /\ db[i].password # None
        /\ db[i].expires_at # None
        /\ ~hist[i].touched
        /\ db[i].downloads_count = MaxLimit
        /\ hist[i].allowed = MaxLimit
        /\ rq[1] = Answer("download", 410, "Download limit reached")

(* the amount an optional number of days or hours stands for *)
Given(o) == IF o = None THEN 0 ELSE Val(o)

(* C23: a record created with d days and h hours has expires_at = now +    *)
(* d days + h hours, now plus the one amount when only one is given, and   *)
(* no expiry when neither is given; a download of a record that has no      *)
(* expiry is never denied with Expired and a download of a record that has  *)
(* no download_limit is never denied with LimitReached.                     *)
C23_ExpiryAdditive ==
    [][\A w \in Serial :
          /\ \A i \in DOMAIN db' \ DOMAIN db :
                 LET d == rq[w].form.expires_days
                     h == rq[w].form.expires_hours
                 IN /\ rq[w].pc = "up_commit"
                    /\ db'[i].max_downloads = rq[w].form.max_downloads
                    /\ db'[i].expires_at =
                          IF d = None /\ h = None THEN None
                          ELSE Some(now + Given(d) * HoursPerDay + Given(h))
          /\ (Decides(w) /\ rq[w].snap.expires_at = None) =>
                 Decision(w) # "File has expired"
          /\ (Decides(w) /\ rq[w].snap.max_downloads = None) =>
                 Decision(w) # "Download limit reached"]_vars

(* a record created with one day and one hour and no download_limit was     *)
(* downloaded after the clock moved *)
C23_Witness ==
    \E i \in DOMAIN db :
        /\ db[i].expires_at = Some(db[i].created_at + HoursPerDay + 1)
        /\ db[i].max_downloads = None
        /\ db[i].downloads_count >= 1
        /\ now > db[i].created_at

(* the name without its non-ASCII characters *)
Stripped(name) == SelectSeq(name, LAMBDA c : c <= 127)

(* the bytes a percent-encoded text stands for *)
HexValue(d) == IF d <= 57 THEN d - 48 ELSE d - 55
RECURSIVE PercentDecode(_)
PercentDecode(text) ==
    IF text = <<>> THEN <<>>
    ELSE IF Head(text) = 37
    THEN <<16 * HexValue(text[2]) + HexValue(text[3])>>
         \o PercentDecode(SubSeq(text, 4, Len(text)))
    ELSE <<Head(text)>> \o PercentDecode(Tail(text))

(* the header's two parameters are Latin-1 text, and the extended one is   *)
(* the percent-encoded UTF-8 of the name, left out exactly when the        *)
(* composition is not Latin-1 *)
HeaderRepresentable(name, header) ==
    /\ \A i \in 1..Len(header.filename) : header.filename[i] <= 255
    /\ header.filename_star # None =>
           LET e == Val(header.filename_star)
           IN /\ \A i \in 1..Len(e) : e[i] >= 32 /\ e[i] <= 126
              /\ PercentDecode(e) = filename_bytes(name)
    /\ header.filename_star = None <=>
           \E i \in 1..Len(encoded_filename(name)) :
               encoded_filename(name)[i] > 255

(* C25: for every display_name the emitted header is representable in      *)
(* Latin-1, its fallback name is the display_name without its non-ASCII     *)
(* characters, or "file" when nothing is left, and the header is the        *)
(* fallback plus the percent-encoded UTF-8 extended parameter, or the       *)
(* fallback alone when the composition is not representable.               *)
C25_HeaderLatin1 ==
    page.kind = "header" =>
        /\ HeaderRepresentable(page.filename, page.header)
        /\ page.header.filename =
               IF Stripped(page.filename) = <<>> THEN <<102, 105, 108, 101>>
               ELSE Stripped(page.filename)

(* C25, amended: as C25, but the fallback name is "file" also when only     *)
(* whitespace is left of the display_name.                                  *)
C25_HeaderLatin1Blank ==
    page.kind = "header" =>
        /\ HeaderRepresentable(page.filename, page.header)
        /\ page.header.filename =
               IF \A i \in 1..Len(Stripped(page.filename)) :
                      Stripped(page.filename)[i] \in {9, 10, 11, 12, 13, 32}
                                                      \cup (28..31)
               THEN <<102, 105, 108, 101>>
               ELSE Stripped(page.filename)

(* the header of a name with a quote and a character outside Latin-1 was   *)
(* emitted *)
C25_Witness ==
    /\ page.kind = "header"
    /\ \E i \in 1..Len(page.filename) : page.filename[i] > 255
    /\ \E i \in 1..Len(page.filename) : page.filename[i] = 34
    /\ page.header.filename_star # None

(* the status of the upstream call the proxy is answering for in this step *)
UpstreamStatus ==
    IF page.pc = "pd_info" THEN page.info_status ELSE rq[page.worker].status

(* C24: when the upstream Info call or Download call of the download proxy *)
(* fails with 404, 403 or 410 the proxy answers its own caller with the     *)
(* same code, and it returns the file's bytes only when the upstream        *)
(* download was answered 200.                                               *)
C24_ProxySameCodes ==
    [][(page.kind = "download" /\ page.pc # "done" /\ page'.pc = "done") =>
          /\ UpstreamStatus \in {404, 403, 410} => page'.status = UpstreamStatus
          /\ UpstreamStatus # 200 => "body" \notin DOMAIN page'
          /\ "body" \in DOMAIN page' =>
                 /\ page.pc = "pd_download"
                 /\ rq[page.worker].kind = "download"
                 /\ page'.body = rq[page.worker].body]_vars

(* the record was there for the Info call and gone for the Download call:   *)
(* the proxy answered 404 for the Download call *)
C24_Witness ==
    /\ page.kind = "download"
    /\ page.pc = "done"
    /\ page.stage = "download"
    /\ page.status = 404

(* C26: uploads, possibly cut short between the write and the commit,      *)
(* interleaved with downloads and Info: every stored record has bytes       *)
(* under the stored_name its own upload wrote to, and no download finds a   *)
(* record without bytes.                                                    *)
C26_BytesBeforeRecord ==
    /\ \A i \in DOMAIN db :
           /\ hist[i].stored_name = Some(db[i].stored_name)
           /\ db[i].stored_name \in DOMAIN disk
    /\ \A w \in Workers :
           rq[w] # Answer("download", 404, "File not found on disk")

(* an upload cut short left bytes that no record names, while a download    *)
(* of another record was served *)
C26_Witness ==
    /\ \E w \in Workers : rq[w] = Answer("upload", 0, "crashed")
    /\ \E k \in DOMAIN disk : \A i \in DOMAIN db : db[i].stored_name # k
    /\ \E w \in Workers : rq[w].kind = "download" /\ rq[w].status = 200

(* C27: requests served one after another, a delete possibly cut short     *)
(* between its steps: a record leaves the store only in the last step of   *)
(* its delete, and then no bytes lie under its stored_name; a delete cut    *)
(* short before that step leaves the record in the store.                  *)
C27_BytesFirst ==
    [][\A i \in DOMAIN db \ DOMAIN db' :
          \E w \in Serial :
              /\ rq[w].pc = "del_commit"
              /\ rq[w].snap.id = i
              /\ rq'[w].status = 200
              /\ db[i].stored_name \notin DOMAIN disk
              /\ db[i].stored_name \notin DOMAIN disk']_vars

(* a delete was cut short after it removed the bytes: the record is still  *)
(* stored, without bytes *)
C27_Witness ==
    /\ rq[1] = Answer("delete", 0, "crashed")
    /\ \E i \in DOMAIN db : db[i].stored_name \notin DOMAIN disk

(* C28: a download that ends in a failure (unknown token, wrong            *)
(* credential, expired, limit reached, bytes missing) changes no record in  *)
(* the step that answers, and the record it found still has the             *)
(* download_count the download read.                                        *)
C28_FailureKeepsCount ==
    [][\A w \in Serial :
          (StepOf(w, {"download"}) /\ rq'[w].pc = "done"
             /\ rq'[w].status \in {403, 404, 410}) =>
              /\ db' = db
              /\ rq[w].pc = "dl_check" =>
                     db[rq[w].snap.id].downloads_count =
                         rq[w].snap.downloads_count
              /\ rq[w].pc = "dl_serve" =>
                     db[rq[w].id].downloads_count = rq[w].read]_vars

(* C29: under every interleaving of downloads with updates and transfers,   *)
(* a step of a download leaves every stored record as it is but for its     *)
(* download_count: credential, expires_at, download_limit and owner stay    *)
(* as the concurrent requests committed them.                               *)
C29_DownloadWritesCountOnly ==
    [][\A w \in Workers :
          StepOf(w, {"download"}) =>
              /\ DOMAIN db' = DOMAIN db
              /\ \A i \in DOMAIN db :
                     db'[i] = [db[i] EXCEPT
                                 !.downloads_count = db'[i].downloads_count]]_vars

(* a download that read the record with credential "a" and owner u1 has     *)
(* committed its count after the update and the transfer committed theirs   *)
C29_Witness ==
    \E w \in Workers :
        /\ rq[w].kind = "download"
        /\ rq[w].pc = "dl_serve"
        /\ db[rq[w].id].downloads_count = rq[w].read + 1
        /\ db[rq[w].id].password = Some("b")
        /\ db[rq[w].id].expires_at # None
        /\ db[rq[w].id].max_downloads = Some(MaxLimit)
        /\ db[rq[w].id].user_id = Some("u2")

(* C30: in every record state, when Info reports has_credential = true a    *)
(* download that supplies no credential is denied with WrongCredential,     *)
(* and when Info reports has_credential = false, is_expired = false and     *)
(* is_limit_reached = false a download with no credential is Allowed.       *)
C30_InfoAgrees ==
    \A i \in DOMAIN db :
        LET info == FileInfo(db[i], now)
            d == DownloadCheck(db[i], None, now)
        IN /\ info.has_password => d = "Invalid password"
           /\ (~info.has_password /\ ~info.is_expired
                 /\ ~info.is_download_limit_reached) => d = "ok"

(* worker w starts an upload whose token or stored_name a stored record has *)
StartsColliding(w) ==
    /\ rq[w].pc = "done"
    /\ rq'[w].pc = "up_commit"
    /\ \E i \in DOMAIN db :
           \/ db[i].token = rq'[w].token
           \/ db[i].stored_name = rq'[w].stored_name

(* C31: requests served one after another: no step of an upload whose       *)
(* token or stored_name collides with a stored record's, and no step in     *)
(* which an upload fails, changes a stored record or the bytes under a      *)
(* stored record's stored_name.                                             *)
C31_FailedUploadKeepsBytes ==
    [][\A w \in Serial :
          (StartsColliding(w) \/ (Creates(w) /\ rq'[w].status # 200)) =>
              /\ db' = db
              /\ \A i \in DOMAIN db :
                     db[i].stored_name \in DOMAIN disk =>
                         /\ db[i].stored_name \in DOMAIN disk'
                         /\ disk'[db[i].stored_name] =
                                disk[db[i].stored_name]]_vars

(* the form the upload that worker w is committing was submitted with: the  *)
(* browser's form when the web service sent the request *)
Submitted(w) ==
    IF page.pc = "upload_wait" /\ page.worker = w THEN page.form
    ELSE rq[w].form

(* C32: a record created by an upload, through the browser-facing upload    *)
(* or directly, has the credential and download_limit of the submitted      *)
(* form and the expires_at a direct upload computes from the form's days    *)
(* and hours, the values 0 included.                                        *)
C32_WebUploadSamePolicy ==
    [][\A w \in Serial :
          \A i \in DOMAIN db' \ DOMAIN db :
              LET form == Submitted(w)
              IN /\ db'[i].password = form.password
                 /\ db'[i].max_downloads = form.max_downloads
                 /\ db'[i].expires_at =
                        parse_expires_at(form.expires_days,
                                         form.expires_hours, now)]_vars

(* C33: through the web service, in every session state: a step of a        *)
(* settings update changes a record only when the session's identity is     *)
(* the record's owner; otherwise every record stays as it is.               *)
C33_OnlyOwnerUpdates ==
    [][\A w \in Serial :
          StepOf(w, {"update"}) =>
              /\ DOMAIN db' = DOMAIN db
              /\ \A i \in DOMAIN db :
                     db'[i] # db[i] =>
                         /\ session'.user_id # None
                         /\ db[i].user_id = session'.user_id
                         /\ db'[i].user_id = db[i].user_id]_vars

(* after a logout the session was refused the update of the record its      *)
(* account owns, and the record kept its policy *)
C33_Witness ==
    /\ page.kind = "settings"
    /\ session.auth_token = None
    /\ rq[1].kind = "update"
    /\ rq[1].status = 403
    /\ \E i \in DOMAIN db :
           /\ db[i].token = rq[1].token
           /\ db[i].user_id = Some("1")
           /\ db[i].password = None
           /\ db[i].max_downloads = None

(* worker w's update of record i, sent by the owner the request read,     *)
(* commits a new expiry in this step                                      *)
OwnerSetsExpiry(w, i) ==
    /\ Commits(w)
    /\ rq[w].snap.id = i
    /\ rq[w].user_id = rq[w].snap.user_id
    /\ \/ rq[w].file_update.expires_days # None
       \/ rq[w].file_update.expires_hours # None

====
